---- MODULE Spec2Model ----
(***************************************************************************)
(* Adaptive learning-path orchestrator (agentic-studymate backend).        *)
(*                                                                         *)
(* The module holds these state machines over one set of variables:        *)
(*   SpecCB        the circuit breaker API driven by arbitrary clients     *)
(*                 (orchestrator/circuit_breaker.py)                       *)
(*   SpecRegistry  the gateway's health monitor, service registry and the  *)
(*                 candidate selection of /api/next                        *)
(*                 (orchestrator/service_registry.py, engine.py)           *)
(*   SpecEval      the evaluator pipeline and the aggregator               *)
(*                 (api-gateway/main.py, evaluator/*.py)                   *)
(*   SpecDecide    one call of DecisionEngine.decide on a user state       *)
(*                 (orchestrator/engine.py)                                *)
(*   SpecNext      non-overlapping GET /api/next calls of one user with    *)
(*                 the state manager and the decision engine               *)
(*                 (api-gateway/main.py, orchestrator/*.py)                *)
(*   SpecRows      the same calls with evaluate calls in between           *)
(*   SpecAgg       update_user_state called on its own                     *)
(*                 (evaluator/aggregator.py)                               *)
(*   SpecAuth      the gateway's routes and verify_token                   *)
(*                 (api-gateway/main.py)                                   *)
(*   SpecMonitor   the health monitor task under fair scheduling, until    *)
(*                 stop_monitoring                                         *)
(*   SpecHealth    the registry under monitor rounds, is_healthy and       *)
(*                 all_status calls                                        *)
(*   SpecRead      one get_user_state call on any stored state             *)
(*                 (orchestrator/state_manager.py)                         *)
(*   SpecHist      a Histogram under observe calls                         *)
(*                 (orchestrator/metrics.py)                               *)
(*   SpecCounter   a Counter under inc calls of several threads            *)
(*                 (orchestrator/metrics.py)                               *)
(*   SpecParse     one _parse_scores call on any LLM content               *)
(*                 (evaluator/scorer.py, api-gateway/main.py)              *)
(*   SpecRules     one decide call of the legacy rule engine               *)
(*                 (orchestrator/rules.py)                                 *)
(*   SpecOverlap   overlapping GET /api/next calls of one user, every      *)
(*                 statement succeeding                                    *)
(*                 (api-gateway/main.py, orchestrator/state_manager.py)    *)
(*                                                                         *)
(* Numbers: a skill score s in [0,1] is the integer s * ONE; a scoring     *)
(* signal or total score x is the integer x * UNIT (exact for every        *)
(* denominator the engine divides by within the bounds below).  Time is    *)
(* the monotonic clock in seconds.                                         *)
(***************************************************************************)
EXTENDS Integers, Sequences, FiniteSets, TLC

\* ---------------------------------------------------------------- bounds
MaxTicks == 3           \* clock steps of health_check_interval_s seconds
MaxSleeps == 6          \* clock steps while the health monitor runs
MaxOps == 7             \* recorded calls / rejections per circuit breaker
NumCallers == 3         \* concurrent tasks that use CircuitBreaker.call
NumRequests == 2        \* evaluate requests in flight at once
MaxEvals == 3           \* evaluate requests received
MaxRecent == 3          \* decisions in recent_modules of a decide call
MaxCalls == 4           \* GET /api/next calls served
MaxRows == 2            \* scores rows of the user when update_user_state
                        \* is called on its own
MaxAggCalls == 2        \* update_user_state calls counted in a row
MaxHistory == 2         \* decisions stored before a get_user_state call
MaxSamples == 3         \* largest max_samples of a Histogram
MaxObserve == 5         \* observe calls on a Histogram
NumThreads == 2         \* threads that call Counter.inc
MaxIncs == 3            \* Counter.inc calls
NumTasks == 2           \* /api/next requests of one user in flight at once
MaxNextCalls == 5       \* /api/next requests received while they overlap

\* ------------------------------------------------------ program constants
failure_threshold == 5          \* EngineConfig.cb_failure_threshold
recovery_timeout_s == 60        \* EngineConfig.cb_recovery_timeout_s
half_open_max_calls == 2        \* EngineConfig.cb_half_open_max_calls
health_check_interval_s == 30   \* EngineConfig.health_check_interval_s

CLOSED == "closed"
OPEN == "open"
HALF_OPEN == "half_open"
CBState == {CLOSED, OPEN, HALF_OPEN}

\* last_failure_time = None (the `state` property tests its truthiness)
NoTime == 0

VARIABLES
    now,        \* time.monotonic(), seconds
    cb,         \* CircuitBreakerRegistry._breakers: name -> breaker
    callers,    \* tasks suspended in CircuitBreaker.call at `await fn(...)`:
                \* breaker state at admission -> number of such tasks
    wasReset,   \* set of breakers on which reset() has been called
    svc,        \* ServiceRegistry._services: name -> ServiceHealth
    monitor,    \* the _health_check_loop task: position, wake-up time and
                \* the _check_service coroutines still awaiting a response
    lastCandidates, \* candidate list of the latest /api/next
    candFresh,  \* TRUE while nothing has happened since that /api/next
    pool,       \* app.state.pool is set
    interactions,   \* number of rows of table interactions
    scoresTable,    \* rows of table scores of the user, in insertion order
    userRow,    \* the user's row of table user_state
    evalReq,    \* the evaluate requests in flight: position, scores, response
    evalCalls,  \* number of evaluate requests received
    aggregatedRows, \* number of scores rows that the latest successful
                    \* aggregate UPDATE averaged
    stmtFailed, \* a database statement of an evaluate call has raised
    decideIn,   \* the arguments of a call of DecisionEngine.decide
    decision,   \* the Decision it returned
    decisionsTable, \* next_module of the user's rows of table
                    \* orchestrator_decisions, in insertion order
    targetRole,     \* target_role of the user's row of user_onboarding
    nextCalls,      \* the GET /api/next calls served, oldest first
    aggCalls,       \* successful update_user_state calls since the latest
                    \* insert into table scores
    supabaseSecret, \* SUPABASE_JWT_SECRET is set
    httpReq,        \* a request to the gateway: position, route, bearer
                    \* token and the user id that verify_token returned
    embeddedAnswer, \* what is_healthy last returned for an embedded service
    hist,           \* a Histogram: maxlen and samples of its deque
    observed,       \* every value passed to Histogram.observe, in order
    readIn,         \* get_user_state: what the database holds and which
                    \* query fails
    readOut,        \* get_user_state: what the call returned
    counter,        \* a Counter: _value and _per_label
    incCalls,       \* the inc calls in progress, one per thread: position,
                    \* label and the value the thread has loaded
    incReturned,    \* inc calls that have returned: in all and per label
    parseIn,        \* _parse_scores: the content of the LLM response
    parseOut,       \* _parse_scores: how the call ended and what it returned
    ruleIn,         \* rules.decide: the state dict
    ruleOut,        \* rules.decide: the module it returned
    apiReq          \* overlapping /api/next requests, one per task: the
                    \* step the task is at and the Decision it holds

cbVars == <<cb, callers, wasReset>>
regVars == <<svc, monitor, lastCandidates, candFresh>>
evalVars == <<pool, interactions, scoresTable, userRow, evalReq, evalCalls,
              aggregatedRows, stmtFailed>>
decideVars == <<decideIn, decision>>
nextVars == <<decisionsTable, targetRole, nextCalls>>
aggVars == <<aggCalls>>
authVars == <<supabaseSecret, httpReq>>
healthVars == <<embeddedAnswer>>
histVars == <<hist, observed>>
readVars == <<readIn, readOut>>
counterVars == <<counter, incCalls, incReturned>>
parseVars == <<parseIn, parseOut>>
ruleVars == <<ruleIn, ruleOut>>
overlapVars == <<apiReq>>
lateVars == <<counterVars, parseVars, ruleVars, overlapVars>>
unitVars == <<aggVars, authVars, healthVars, histVars, readVars, lateVars>>
notAgg == <<cbVars, regVars, decideVars, nextVars, authVars, healthVars,
            histVars, readVars, lateVars>>
notAuth == <<now, cbVars, regVars, evalVars, decideVars, nextVars, aggVars,
             healthVars, histVars, readVars, lateVars>>
earlyVars == <<now, cbVars, regVars, evalVars, decideVars, nextVars, aggVars,
               authVars, healthVars, histVars, readVars>>
notCounter == <<earlyVars, parseVars, ruleVars, overlapVars>>
notParse == <<earlyVars, counterVars, ruleVars, overlapVars>>
notRule == <<earlyVars, counterVars, parseVars, overlapVars>>
vars == <<now, cbVars, regVars, evalVars, decideVars, nextVars, unitVars>>

\* what the breaker API leaves alone / what the registry leaves alone
notCB == <<regVars, evalVars, decideVars, nextVars, unitVars>>
notReg == <<callers, wasReset, evalVars, decideVars, nextVars, unitVars>>
notEval == <<now, cbVars, regVars, decideVars, nextVars, unitVars>>
notDecide == <<now, cbVars, regVars, evalVars, nextVars, unitVars>>

\* ------------------------------------------------ circuit_breaker.py

\* CircuitBreaker.__init__ with CircuitBreakerStats()
NewBreaker ==
    [ _state |-> CLOSED,
      _half_open_calls |-> 0,
      total_calls |-> 0,
      total_successes |-> 0,
      total_failures |-> 0,
      total_rejections |-> 0,
      consecutive_failures |-> 0,
      consecutive_successes |-> 0,
      last_failure_time |-> NoTime,
      state_changes |-> 0 ]

\* CircuitBreaker._transition
_transition(b, new_state) ==
    LET b1 == [b EXCEPT !._state = new_state,
                        !.state_changes = @ + 1]
        b2 == IF new_state = HALF_OPEN
              THEN [b1 EXCEPT !._half_open_calls = 0] ELSE b1
    IN  IF new_state = CLOSED
        THEN [b2 EXCEPT !.consecutive_failures = 0] ELSE b2

\* CircuitBreaker.state (property): the breaker as the read leaves it
state_read(b, t) ==
    IF /\ b._state = OPEN
       /\ b.last_failure_time # NoTime
       /\ t - b.last_failure_time >= recovery_timeout_s
    THEN _transition(b, HALF_OPEN)
    ELSE b

\* CircuitBreaker.state (property): the value the read returns
state(b, t) == state_read(b, t)._state

\* CircuitBreaker.is_available (property): the value returned
is_available(b, t) ==
    LET s == state(b, t)
    IN  IF s = CLOSED THEN TRUE
        ELSE IF s = HALF_OPEN
             THEN state_read(b, t)._half_open_calls < half_open_max_calls
             ELSE FALSE

\* a record_success that closes on the first success seen in half_open
record_success_eager(b, t) ==
    LET b1 == [b EXCEPT !.total_calls = @ + 1,
                        !.total_successes = @ + 1,
                        !.consecutive_successes = @ + 1,
                        !.consecutive_failures = 0]
    IN  IF b1._state = HALF_OPEN
        THEN _transition([b1 EXCEPT !._half_open_calls = @ + 1], CLOSED)
        ELSE b1

\* a record_success that closes on the total number of successes
record_success_total(b, t) ==
    LET b1 == [b EXCEPT !.total_calls = @ + 1,
                        !.total_successes = @ + 1,
                        !.consecutive_successes = @ + 1,
                        !.consecutive_failures = 0]
    IN  IF b1._state = HALF_OPEN
        THEN LET b2 == [b1 EXCEPT !._half_open_calls = @ + 1]
             IN  IF b2.total_successes >= half_open_max_calls
                 THEN _transition(b2, CLOSED)
                 ELSE b2
        ELSE b1

\* CircuitBreaker.record_success
record_success(b, t) ==
    LET b1 == [b EXCEPT !.total_calls = @ + 1,
                        !.total_successes = @ + 1,
                        !.consecutive_successes = @ + 1,
                        !.consecutive_failures = 0]
    IN  IF b1._state = HALF_OPEN
        THEN LET b2 == [b1 EXCEPT !._half_open_calls = @ + 1]
             IN  IF b2.consecutive_successes >= half_open_max_calls
                 THEN _transition(b2, CLOSED)
                 ELSE b2
        ELSE b1

\* a record_failure that opens only above the threshold (off by one)
record_failure_late(b, t) ==
    LET b1 == [b EXCEPT !.total_calls = @ + 1,
                        !.total_failures = @ + 1,
                        !.consecutive_failures = @ + 1,
                        !.consecutive_successes = 0,
                        !.last_failure_time = t]
    IN  IF b1._state = HALF_OPEN
        THEN _transition(b1, OPEN)
        ELSE IF b1.consecutive_failures > failure_threshold
             THEN _transition(b1, OPEN)
             ELSE b1

\* CircuitBreaker.record_failure
record_failure(b, t) ==
    LET b1 == [b EXCEPT !.total_calls = @ + 1,
                        !.total_failures = @ + 1,
                        !.consecutive_failures = @ + 1,
                        !.consecutive_successes = 0,
                        !.last_failure_time = t]
    IN  IF b1._state = HALF_OPEN
        THEN _transition(b1, OPEN)
        ELSE IF b1.consecutive_failures >= failure_threshold
             THEN _transition(b1, OPEN)
             ELSE b1

\* CircuitBreaker.reset
reset(b) ==
    [_transition(b, CLOSED) EXCEPT !.consecutive_failures = 0,
                                    !.consecutive_successes = 0]

\* ------------------------------------------- SpecCB: the breaker API

TheBreaker == "interactive_course"

\* the tasks currently inside a wrapped function
InFlight == callers[CLOSED] + callers[HALF_OPEN]

\* a breaker may take one more recorded call or rejection
HasBudget(b) == b.total_calls + b.total_rejections < MaxOps

\* a client calls record_success()
RecordSuccess(s) ==
    /\ HasBudget(cb[s])
    /\ cb' = [cb EXCEPT ![s] = record_success(@, now)]
    /\ UNCHANGED <<now, callers, wasReset, notCB>>

\* a client calls record_failure()
RecordFailure(s) ==
    /\ HasBudget(cb[s])
    /\ cb' = [cb EXCEPT ![s] = record_failure(@, now)]
    /\ UNCHANGED <<now, callers, wasReset, notCB>>

\* a client reads cb.state or cb.is_available (to_dict reads both)
ReadState(s) ==
    /\ cb' = [cb EXCEPT ![s] = state_read(@, now)]
    /\ UNCHANGED <<now, callers, wasReset, notCB>>

\* a call that records a rejection as a failed call
CallStart_as_failure(s) ==
    /\ InFlight < NumCallers
    /\ HasBudget(cb[s])
    /\ IF is_available(cb[s], now)
       THEN /\ cb' = [cb EXCEPT ![s] = state_read(@, now)]
            /\ callers' = [callers EXCEPT ![state(cb[s], now)] = @ + 1]
       ELSE /\ cb' = [cb EXCEPT ![s] =
                   [record_failure(@, now) EXCEPT !.total_rejections = @ + 1]]
            /\ UNCHANGED callers
    /\ UNCHANGED <<now, wasReset, notCB>>

\* CircuitBreaker.call up to `await fn(...)`: admitted or rejected
CallStart(s) ==
    /\ InFlight < NumCallers
    /\ HasBudget(cb[s])
    /\ IF is_available(cb[s], now)
       THEN /\ cb' = [cb EXCEPT ![s] = state_read(@, now)]
            /\ callers' = [callers EXCEPT ![state(cb[s], now)] = @ + 1]
       ELSE /\ cb' = [cb EXCEPT ![s] =
                   [state_read(@, now) EXCEPT !.total_rejections = @ + 1]]
            /\ UNCHANGED callers
    /\ UNCHANGED <<now, wasReset, notCB>>

\* CircuitBreaker.call after `await fn(...)`: fn returned or raised
CallEnd(s, a, ok) ==
    /\ callers[a] > 0
    /\ cb' = [cb EXCEPT ![s] = IF ok THEN record_success(@, now)
                                     ELSE record_failure(@, now)]
    /\ callers' = [callers EXCEPT ![a] = @ - 1]
    /\ UNCHANGED <<now, wasReset, notCB>>

\* an admin calls reset()
Reset(s) ==
    /\ cb[s].state_changes < MaxOps
    /\ cb' = [cb EXCEPT ![s] = reset(@)]
    /\ wasReset' = wasReset \cup {s}
    /\ UNCHANGED <<now, callers, notCB>>

\* the monotonic clock advances
Tick ==
    /\ now < 1 + MaxTicks * health_check_interval_s
    /\ now' = now + health_check_interval_s
    /\ UNCHANGED <<cbVars, notCB>>

NextCB ==
    \/ RecordSuccess(TheBreaker)
    \/ RecordFailure(TheBreaker)
    \/ ReadState(TheBreaker)
    \/ CallStart(TheBreaker)
    \/ \E a \in {CLOSED, HALF_OPEN}, ok \in BOOLEAN :
           CallEnd(TheBreaker, a, ok)
    \/ Reset(TheBreaker)
    \/ Tick

\* ------------------------------------------------------- config.py

\* MODULES, in the dict's insertion order
ModuleOrder ==
    << "onboarding", "production_interview", "interactive_course",
       "dsa_practice", "resume_builder", "project_studio" >>

ModuleNames == {ModuleOrder[i] : i \in 1..Len(ModuleOrder)}

\* ModuleDefinition.base_url is set (None for onboarding)
has_base_url(m) == m # "onboarding"

\* ------------------------------------------- service_registry.py

EmbeddedServices == {"evaluator", "orchestrator", "job-search"}
ModuleServices == {m \in ModuleNames : has_base_url(m)}

\* services whose health probe may fail in the model; the others answer 200
Flaky == {"interactive_course"}

\* ServiceHealth(name, url, is_embedded=False) / (name, is_embedded=True,
\* status="healthy")
NewServiceHealth(embedded) ==
    [ status |-> IF embedded THEN "healthy" ELSE "unknown",
      is_embedded |-> embedded,
      consecutive_failures |-> 0 ]

\* ServiceRegistry.__init__: _register_module_services,
\* _register_embedded_services
InitialServices ==
    [n \in ModuleServices \cup EmbeddedServices |->
        NewServiceHealth(n \in EmbeddedServices)]

\* CircuitBreakerRegistry.get: the registry after get(name)
CB_get(breakers, name) ==
    IF name \in DOMAIN breakers THEN breakers
    ELSE [n \in DOMAIN breakers \cup {name} |->
            IF n = name THEN NewBreaker ELSE breakers[n]]

\* an is_healthy that gets the breaker of every registered service
is_healthy_read_all(services, breakers, name, t) ==
    IF name \notin DOMAIN services THEN breakers
    ELSE [CB_get(breakers, name) EXCEPT ![name] = state_read(@, t)]

\* ServiceRegistry.is_healthy: the breakers as the call leaves them
is_healthy_read(services, breakers, name, t) ==
    IF name \notin DOMAIN services THEN breakers
    ELSE IF services[name].is_embedded THEN breakers
    ELSE [CB_get(breakers, name) EXCEPT ![name] = state_read(@, t)]

\* ServiceRegistry.is_healthy: the value returned
is_healthy(services, breakers, name, t) ==
    IF name \notin DOMAIN services THEN FALSE
    ELSE IF services[name].is_embedded THEN TRUE
    ELSE state(CB_get(breakers, name)[name], t) # OPEN

\* ServiceRegistry._check_service after the response (or the exception)
check_service_result(h, outcome) ==
    IF outcome = "200"
    THEN [h EXCEPT !.status = "healthy",
                   !.consecutive_failures = 0]
    ELSE IF outcome = "non200"
    THEN [h EXCEPT !.status = "degraded",
                   !.consecutive_failures = @ + 1]
    ELSE [h EXCEPT !.status = "unhealthy",
                   !.consecutive_failures = @ + 1]

ProbeOutcomes == {"200", "non200", "timeout", "error"}

\* --------------------------------------------------- engine.py (step 2)

\* a _get_candidates that ignores service_health
_get_candidates_any_health(has_recent, service_health) ==
    SelectSeq(ModuleOrder, LAMBDA m : ~(m = "onboarding" /\ has_recent))

\* DecisionEngine._get_candidates; has_recent: state.recent_modules is
\* not empty; service_health.get(m) is False only for a mapped FALSE
_get_candidates(has_recent, service_health) ==
    SelectSeq(ModuleOrder,
        LAMBDA m :
            /\ ~(has_base_url(m) /\ m \in DOMAIN service_health
                                 /\ service_health[m] = FALSE)
            /\ ~(m = "onboarding" /\ has_recent))

\* api_next step 3: {name: registry.is_healthy(name) for name in
\* ORCH_MODULES}; each call reads (and may move) that module's breaker
RECURSIVE health_reads(_, _, _, _)
health_reads(services, breakers, i, t) ==
    IF i > Len(ModuleOrder) THEN breakers
    ELSE health_reads(services,
                      is_healthy_read(services, breakers, ModuleOrder[i], t),
                      i + 1, t)

service_health_map(services, breakers, t) ==
    [m \in ModuleNames |-> is_healthy(services, breakers, m, t)]

SeqToSet(q) == {q[i] : i \in 1..Len(q)}

\* --------------------------------- SpecRegistry: the gateway's monitor

\* _health_check_loop wakes; _check_all_services starts one _check_service
\* per non-embedded service, each of which gets its breaker and awaits
\* the response
RoundStart ==
    /\ monitor.pc = "sleeping"
    /\ now >= monitor.wakeAt
    /\ LET targets == {n \in DOMAIN svc : ~svc[n].is_embedded}
       IN  /\ monitor' = [monitor EXCEPT !.pc = "probing",
                                         !.pending = targets]
           /\ cb' = [n \in DOMAIN cb \cup targets |->
                        IF n \in DOMAIN cb THEN cb[n] ELSE NewBreaker]
    /\ candFresh' = FALSE
    /\ UNCHANGED <<now, svc, lastCandidates, notReg>>

\* a gather() that gives up the round at the first failed probe
ProbeDone_abort(s, outcome) ==
    /\ monitor.pc = "probing"
    /\ s \in monitor.pending
    /\ outcome = "200" \/ s \in Flaky
    /\ svc' = [svc EXCEPT ![s] = check_service_result(@, outcome)]
    /\ cb' = [cb EXCEPT ![s] = IF outcome = "200"
                                THEN record_success(@, now)
                                ELSE record_failure(@, now)]
    /\ monitor' = [monitor EXCEPT
                      !.pending = IF outcome = "200" THEN @ \ {s} ELSE {}]
    /\ candFresh' = FALSE
    /\ UNCHANGED <<now, lastCandidates, notReg>>

\* one _check_service gets its response, a timeout or another exception
ProbeDone(s, outcome) ==
    /\ monitor.pc = "probing"
    /\ s \in monitor.pending
    /\ outcome = "200" \/ s \in Flaky
    /\ svc' = [svc EXCEPT ![s] = check_service_result(@, outcome)]
    /\ cb' = [cb EXCEPT ![s] = IF outcome = "200"
                                THEN record_success(@, now)
                                ELSE record_failure(@, now)]
    /\ monitor' = [monitor EXCEPT !.pending = @ \ {s}]
    /\ candFresh' = FALSE
    /\ UNCHANGED <<now, lastCandidates, notReg>>

\* gather() returns; the loop sleeps health_check_interval_s
RoundEnd ==
    /\ monitor.pc = "probing"
    /\ monitor.pending = {}
    /\ monitor' = [monitor EXCEPT !.pc = "sleeping",
                                  !.wakeAt = now + health_check_interval_s]
    /\ candFresh' = FALSE
    /\ UNCHANGED <<now, cb, svc, lastCandidates, notReg>>

\* the monotonic clock advances
TickRegistry ==
    /\ now < 1 + MaxSleeps * health_check_interval_s
    /\ now' = now + health_check_interval_s
    /\ candFresh' = FALSE
    /\ UNCHANGED <<cb, svc, monitor, lastCandidates, notReg>>

\* GET /api/orchestrator/services: ServiceRegistry.all_status reads the
\* state of every non-embedded service's breaker
AllStatus ==
    /\ cb' = [n \in DOMAIN cb \cup {m \in DOMAIN svc : ~svc[m].is_embedded} |->
                state_read(CB_get(cb, n)[n], now)]
    /\ candFresh' = FALSE
    /\ UNCHANGED <<now, svc, monitor, lastCandidates, notReg>>

\* GET /api/next, steps 3 and 4 (candidate selection)
ApiNextCandidates(has_recent) ==
    /\ cb' = health_reads(svc, cb, 1, now)
    /\ lastCandidates' =
           _get_candidates(has_recent, service_health_map(svc, cb, now))
    /\ candFresh' = TRUE
    /\ UNCHANGED <<now, svc, monitor, notReg>>

NextRegistry ==
    \/ RoundStart
    \/ \E s \in ModuleServices, o \in ProbeOutcomes : ProbeDone(s, o)
    \/ RoundEnd
    \/ TickRegistry
    \/ AllStatus
    \/ \E h \in BOOLEAN : ApiNextCandidates(h)

\* a caller asks is_healthy(name)
IsHealthy(name) ==
    /\ cb' = is_healthy_read(svc, cb, name, now)
    /\ embeddedAnswer' =
          IF name \in DOMAIN svc /\ svc[name].is_embedded
          THEN IF is_healthy(svc, cb, name, now) THEN "true" ELSE "false"
          ELSE embeddedAnswer
    /\ candFresh' = FALSE
    /\ UNCHANGED <<now, svc, monitor, lastCandidates, callers, wasReset,
                   evalVars, decideVars, nextVars, aggVars, authVars,
                   histVars, readVars, lateVars>>

\* the registry under monitor rounds, is_healthy and all_status calls
NextHealth ==
    \/ RoundStart
    \/ \E s \in ModuleServices, o \in ProbeOutcomes : ProbeDone(s, o)
    \/ RoundEnd
    \/ TickRegistry
    \/ AllStatus
    \/ \E name \in ModuleServices \cup EmbeddedServices : IsHealthy(name)

\* lifespan shutdown: stop_monitoring clears _running and cancels the
\* monitor task, with the probes it is awaiting
StopMonitoring ==
    /\ monitor.pc \in {"sleeping", "probing"}
    /\ monitor' = [monitor EXCEPT !.pc = "stopped", !.pending = {}]
    /\ candFresh' = FALSE
    /\ UNCHANGED <<now, cb, svc, lastCandidates, notReg>>

\* the monitor task alone, from start_monitoring to stop_monitoring
NextMonitor ==
    \/ RoundStart
    \/ \E s \in ModuleServices, o \in ProbeOutcomes : ProbeDone(s, o)
    \/ RoundEnd
    \/ TickRegistry
    \/ StopMonitoring

\* ------------------------------------- evaluator: scorer._parse_scores

\* one skill score is ONE; rows of hundredths average exactly
ONE == 100 * 60
Hundredth == ONE \div 100

\* SCORE_FIELDS, in order; column i of scores and of user_state
SCORE_FIELDS ==
    << "clarity", "tradeoffs", "adaptability", "failure_awareness",
       "dsa_predict" >>
Fields == 1..Len(SCORE_FIELDS)

\* values of a JSON member / of an Optional[float] / of a FLOAT NULL column
Num(h) == [k |-> "num", v |-> h * Hundredth]   \* h hundredths
NullV == [k |-> "null", v |-> 0]               \* null / None / NULL
InfV == [k |-> "inf", v |-> 0]                 \* 1e999: float gives inf
Absent == [k |-> "absent", v |-> 0]            \* member not in the object
BadStr == [k |-> "bad_str", v |-> 0]           \* "high": float raises ValueError
BadType == [k |-> "bad_type", v |-> 0]         \* [1]: float raises TypeError

AllNull == [i \in Fields |-> NullV]

\* what the LLM call can give: no content (provider failed or status not
\* 200), text without JSON, or a JSON object with these members
NoContent == "no_content"
NotJson == "not_json"
LLMObjects ==
    { << Num(20), Num(60), Num(80), Num(40), NullV >>,
      << Num(100), Num(0), Num(50), Num(50), Num(30) >>,
      << Num(150), Num(0 - 50), Num(80), Num(40), Absent >>,
      << Num(50), InfV, Num(80), Num(40), NullV >>,
      << Num(70), BadStr, Num(30), Num(30), NullV >>,
      << Num(70), BadType, Num(30), Num(30), NullV >> }
LLMReplies == {[kind |-> NoContent, data |-> AllNull],
               [kind |-> NotJson, data |-> AllNull]}
              \cup {[kind |-> "json", data |-> o] : o \in LLMObjects}

\* the loop `for field in SCORE_FIELDS` of _parse_scores from field i on;
\* scores is the dict filled so far.  The result is the dict and how the
\* loop ended: "return", "ValueError" or "TypeError"
RECURSIVE parse_fields(_, _, _)
parse_fields(data, scores, i) ==
    IF i > Len(SCORE_FIELDS) THEN [scores |-> scores, end |-> "return"]
    ELSE IF data[i].k \in {"absent", "null"}
         THEN parse_fields(data, scores, i + 1)
    ELSE IF data[i].k = "bad_str"
         THEN [scores |-> scores, end |-> "ValueError"]
    ELSE IF data[i].k = "bad_type"
         THEN [scores |-> scores, end |-> "TypeError"]
    ELSE parse_fields(data, [scores EXCEPT ![i] = data[i]], i + 1)

\* _parse_scores(content): both strategies fill the same dict, and the
\* extracted block of a JSON object is that object; a TypeError leaves
\* the function
_parse_scores(reply) ==
    IF reply.kind = NotJson THEN [scores |-> AllNull, end |-> "return"]
    ELSE LET s1 == parse_fields(reply.data, AllNull, 1)
         IN  IF s1.end # "ValueError" THEN s1
             ELSE LET s2 == parse_fields(reply.data, s1.scores, 1)
                  IN  IF s2.end = "ValueError"
                      THEN [scores |-> s2.scores, end |-> "return"]
                      ELSE s2

\* a score that answers a failed LLM call with zeros
score_zero(reply) ==
    IF reply.kind = NoContent THEN [i \in Fields |-> Num(0)]
    ELSE LET p == _parse_scores(reply)
         IN  IF p.end = "return" THEN p.scores ELSE AllNull

\* scorer.score inside evaluate's try/except, and the gateway's
\* _llm_score: null scores when there is no content or parsing raises
score(reply) ==
    IF reply.kind = NoContent THEN AllNull
    ELSE LET p == _parse_scores(reply)
         IN  IF p.end = "return" THEN p.scores ELSE AllNull

\* ------------------------------------------- aggregator.update_user_state

RECURSIVE SumCol(_, _, _)
SumCol(rows, i, n) ==
    IF n = 0 THEN 0
    ELSE SumCol(rows, i, n - 1)
           + (IF rows[n][i].k = "num" THEN rows[n][i].v ELSE 0)

\* AVG(column i) over the user's rows: NULL when no row has a value
AVG(rows, i) ==
    LET vals == {n \in 1..Len(rows) : rows[n][i].k # "null"}
    IN  IF vals = {} THEN NullV
        ELSE IF \E n \in vals : rows[n][i].k = "inf" THEN InfV
        ELSE [k |-> "num", v |-> SumCol(rows, i, Len(rows)) \div Cardinality(vals)]

\* COALESCE(a, b)
COALESCE(a, b) == IF a.k # "null" THEN a ELSE b

\* the user's row of user_state: the five averages, next_module and
\* last_update (0: the column default of a row nobody has updated)
NoUserRow ==
    [exists |-> FALSE, vals |-> AllNull, next_module |-> "None",
     last_update |-> 0]

\* INSERT INTO user_state (user_id) ... ON CONFLICT DO NOTHING: the new
\* row holds the column defaults
user_state_upsert(row) ==
    IF row.exists THEN row ELSE [NoUserRow EXCEPT !.exists = TRUE]

\* an UPDATE that sets the averages of the latest scores row
aggregate_update_latest(row, rows, t) ==
    IF rows = << >> THEN row
    ELSE [row EXCEPT !.vals = [i \in Fields |->
                         COALESCE(rows[Len(rows)][i], row.vals[i])],
                     !.last_update = t]

\* an UPDATE that leaves last_update alone
aggregate_update_quiet(row, rows, t) ==
    IF rows = << >> THEN row
    ELSE [row EXCEPT !.vals =
            [i \in Fields |-> COALESCE(AVG(rows, i), row.vals[i])]]

\* the UPDATE ... FROM (SELECT AVG ... GROUP BY user_id) at time t: no
\* row in scores gives an empty subquery, which updates nothing
aggregate_update(row, rows, t) ==
    IF rows = << >> THEN row
    ELSE [row EXCEPT !.vals =
            [i \in Fields |-> COALESCE(AVG(rows, i), row.vals[i])],
                     !.last_update = t]

\* aggregator.update_user_state / _update_user_state_agg at time t: the
\* two statements run outside a transaction, so either of them may raise
\* (caught); the row as the call leaves it
update_user_state(row, rows, t, outcome) ==
    IF outcome = "upsert_fails" THEN row
    ELSE IF outcome = "update_fails" THEN user_state_upsert(row)
    ELSE aggregate_update(user_state_upsert(row), rows, t)

AggregateOutcomes == {"ok", "upsert_fails", "update_fails"}

\* ------------------------------ SpecEval: POST /evaluate, POST /api/evaluate

Requests == 1..NumRequests
Endpoints == {"evaluator", "gateway"}

IdleRequest ==
    [pc |-> "idle", endpoint |-> "gateway", llm_failed |-> FALSE,
     scores |-> AllNull, response |-> "none"]

\* every float of the response body is finite (JSONResponse renders with
\* allow_nan=False)
json_compliant(scores) == \A i \in Fields : scores[i].k # "inf"

\* the response of the handler: the evaluator returns
\* EvaluationResponse(status="ok"); the gateway returns the scores too
evaluate_response(endpoint, scores) ==
    IF endpoint = "gateway" /\ ~json_compliant(scores)
    THEN "error_500"
    ELSE "ok"

\* the request arrives; without a pool the handler returns at once
EvalStart(r, e) ==
    /\ evalReq[r].pc = "idle"
    /\ evalCalls < MaxEvals
    /\ evalCalls' = evalCalls + 1
    /\ evalReq' = [evalReq EXCEPT ![r] =
          IF pool
          THEN [IdleRequest EXCEPT !.pc = "save_interaction", !.endpoint = e]
          ELSE [IdleRequest EXCEPT !.pc = "done", !.endpoint = e,
                                   !.response = "ok"]]
    /\ UNCHANGED <<pool, interactions, scoresTable, userRow, aggregatedRows,
                   stmtFailed, notEval>>

\* step 1, save_interaction: the INSERT succeeds or raises (caught)
SaveInteraction(r, ok) ==
    /\ evalReq[r].pc = "save_interaction"
    /\ interactions' = IF ok THEN interactions + 1 ELSE interactions
    /\ stmtFailed' = (stmtFailed \/ ~ok)
    /\ evalReq' = [evalReq EXCEPT ![r].pc = "score"]
    /\ UNCHANGED <<pool, scoresTable, userRow, evalCalls, aggregatedRows,
                   notEval>>

\* step 2, score / _llm_score: the LLM call returns or fails
Score(r, reply) ==
    /\ evalReq[r].pc = "score"
    /\ evalReq' = [evalReq EXCEPT ![r].pc = "save_scores",
                                  ![r].llm_failed = (reply.kind = NoContent),
                                  ![r].scores = score(reply)]
    /\ UNCHANGED <<pool, interactions, scoresTable, userRow, evalCalls,
                   aggregatedRows, stmtFailed, notEval>>

\* a save_scores that does not wait for the LLM call
SaveScores_early(r, ok) ==
    /\ evalReq[r].pc \in {"score", "save_scores"}
    /\ scoresTable' = IF ok THEN Append(scoresTable, evalReq[r].scores)
                            ELSE scoresTable
    /\ stmtFailed' = (stmtFailed \/ ~ok)
    /\ evalReq' = [evalReq EXCEPT ![r].pc = "aggregate"]
    /\ UNCHANGED <<pool, interactions, userRow, evalCalls, aggregatedRows,
                   notEval>>

\* step 3, save_scores: the INSERT succeeds or raises (caught)
SaveScores(r, ok) ==
    /\ evalReq[r].pc = "save_scores"
    /\ scoresTable' = IF ok THEN Append(scoresTable, evalReq[r].scores)
                            ELSE scoresTable
    /\ stmtFailed' = (stmtFailed \/ ~ok)
    /\ evalReq' = [evalReq EXCEPT ![r].pc = "aggregate"]
    /\ UNCHANGED <<pool, interactions, userRow, evalCalls, aggregatedRows,
                   notEval>>

\* step 4, update_user_state, and the return
Aggregate(r, outcome) ==
    /\ evalReq[r].pc = "aggregate"
    /\ userRow' = update_user_state(userRow, scoresTable, now, outcome)
    /\ aggregatedRows' =
          IF outcome = "ok" THEN Len(scoresTable) ELSE aggregatedRows
    /\ stmtFailed' = (stmtFailed \/ outcome # "ok")
    /\ evalReq' = [evalReq EXCEPT
          ![r].pc = "done",
          ![r].response = evaluate_response(evalReq[r].endpoint,
                                            evalReq[r].scores)]
    /\ UNCHANGED <<pool, interactions, scoresTable, evalCalls, notEval>>

\* the client has the response; the slot serves the next request
EvalReturn(r) ==
    /\ evalReq[r].pc = "done"
    /\ evalReq' = [evalReq EXCEPT ![r] = IdleRequest]
    /\ UNCHANGED <<pool, interactions, scoresTable, userRow, evalCalls,
                   aggregatedRows, stmtFailed, notEval>>

NextEval ==
    \/ \E r \in Requests, e \in Endpoints : EvalStart(r, e)
    \/ \E r \in Requests, ok \in BOOLEAN : SaveInteraction(r, ok)
    \/ \E r \in Requests, reply \in LLMReplies : Score(r, reply)
    \/ \E r \in Requests, ok \in BOOLEAN : SaveScores(r, ok)
    \/ \E r \in Requests, o \in AggregateOutcomes : Aggregate(r, o)
    \/ \E r \in Requests : EvalReturn(r)

\* ------------------------------------------------ config.py: the engine

\* a signal x in [0,1] is the integer x * UNIT
UNIT == 2520 * 20

\* column i of user_state / field i of SkillScores
DIMENSIONS ==
    << "clarity_avg", "tradeoff_avg", "adaptability_avg",
       "failure_awareness_avg", "dsa_predict_skill" >>

\* ModuleDefinition.remediation_skills, as indices of DIMENSIONS
remediation_skills(m) ==
    CASE m = "production_interview" -> << 1, 3 >>
      [] m = "interactive_course" -> << 2, 4 >>
      [] m = "dsa_practice" -> << 5 >>
      [] OTHER -> << >>

\* ModuleDefinition.weight, in tenths
module_weight(m) ==
    CASE m = "onboarding" -> 5
      [] m = "production_interview" -> 12
      [] m = "interactive_course" -> 10
      [] m = "dsa_practice" -> 10
      [] m = "resume_builder" -> 7
      [] m = "project_studio" -> 9

\* EngineConfig thresholds, as skill scores
weakness_threshold == (4 * ONE) \div 10
critical_threshold == (2 * ONE) \div 10

\* EngineConfig weights, in twentieths; diversity_bonus * 0.05
weakness_severity_weight == 8
rate_of_change_weight == 3
recency_weight == 3
goal_alignment_weight == 3
pattern_weight == 3
diversity_bonus_weight == 1

max_consecutive_same_module == 3
min_modules_before_repeat == 1

\* GOAL_SKILL_WEIGHTS after the role key is normalised, in tenths; a role
\* without a profile uses "default"
GOAL_SKILL_WEIGHTS(role) ==
    CASE role = "backend_engineer" -> << 10, 13, 10, 13, 12 >>
      [] role = "frontend_engineer" -> << 12, 10, 13, 8, 9 >>
      [] role = "fullstack_engineer" -> << 11, 12, 11, 11, 11 >>
      [] role = "ml_engineer" -> << 10, 13, 10, 12, 14 >>
      [] role = "devops_engineer" -> << 9, 12, 11, 15, 7 >>
      [] OTHER -> << 10, 10, 10, 10, 10 >>

\* target_role is None
NoRole == "None"

\* ------------------------------------------------ models.py: SkillScores

Min(a, b) == IF a < b THEN a ELSE b
Max(a, b) == IF a > b THEN a ELSE b

\* SkillScores.weakest_dimension: min over the dict of the values below
\* the threshold keeps the first of equal values; 0 stands for None
weakest_dimension(scores, threshold) ==
    LET below == {i \in Fields : scores[i] < threshold}
    IN  IF below = {} THEN 0
        ELSE CHOOSE i \in below :
               \A j \in below :
                  scores[i] < scores[j] \/ (scores[i] = scores[j] /\ i <= j)

\* SkillScores.all_healthy
all_healthy(scores, threshold) == \A i \in Fields : scores[i] >= threshold

\* ------------------------------------------------ engine.py: the signals

\* a _determine_depth whose thresholds are inclusive
_determine_depth_inclusive(st) ==
    IF \E i \in Fields : st.scores[i] <= critical_threshold THEN "critical"
    ELSE IF \E i \in Fields : st.scores[i] <= weakness_threshold
         THEN "remediation"
    ELSE IF (\A i \in Fields : 100 * st.scores[i] >= 99 * ONE)
              /\ st.recent_modules = << >>
         THEN "onboarding"
    ELSE "normal"

\* engine._determine_depth
_determine_depth(st) ==
    IF \E i \in Fields : st.scores[i] < critical_threshold THEN "critical"
    ELSE IF \E i \in Fields : st.scores[i] < weakness_threshold
         THEN "remediation"
    ELSE IF (\A i \in Fields : 100 * st.scores[i] >= 99 * ONE)
              /\ st.recent_modules = << >>
         THEN "onboarding"
    ELSE "normal"

\* severity of one skill value (the loop body of _calc_weakness_severity)
skill_severity(val) ==
    IF val < critical_threshold THEN UNIT
    ELSE IF val < weakness_threshold
         THEN Max((4 * UNIT) \div 10, UNIT - (val * UNIT) \div weakness_threshold)
    ELSE 0

RECURSIVE MaxOver(_, _, _)
MaxOver(skills, scores, n) ==
    IF n = 0 THEN 0
    ELSE Max(skill_severity(scores[skills[n]]), MaxOver(skills, scores, n - 1))

\* a severity that gives every module the base score of the modules
\* without remediation skills
_calc_weakness_severity_base(m, st) ==
    IF all_healthy(st.scores, weakness_threshold)
    THEN (6 * UNIT) \div 10
    ELSE UNIT \div 10

\* engine._calc_weakness_severity
_calc_weakness_severity(m, st) ==
    IF remediation_skills(m) = << >>
    THEN IF all_healthy(st.scores, weakness_threshold)
         THEN (6 * UNIT) \div 10
         ELSE UNIT \div 10
    ELSE MaxOver(remediation_skills(m), st.scores, Len(remediation_skills(m)))

\* engine._calc_rate_of_change; the memory context counts its recent
\* events by the kind their event_type mentions
_calc_rate_of_change(mem) ==
    IF ~mem.stats THEN UNIT \div 2
    ELSE IF mem.weakness_events + mem.strength_events + mem.other_events = 0
         THEN UNIT \div 2
    ELSE IF mem.weakness_events + mem.strength_events = 0 THEN UNIT \div 2
    ELSE (mem.weakness_events * UNIT)
            \div (mem.weakness_events + mem.strength_events)

\* list.index(m), 0-based; Len(q) when m is not in q
RECURSIVE IndexOf(_, _, _)
IndexOf(q, m, i) ==
    IF i > Len(q) THEN Len(q)
    ELSE IF q[i] = m THEN i - 1
    ELSE IndexOf(q, m, i + 1)

\* a _calc_recency_score that counts positions from one
_calc_recency_score_from_one(m, st) ==
    IF st.recent_modules = << >> THEN UNIT \div 2
    ELSE IF \E i \in 1..Len(st.recent_modules) : st.recent_modules[i] = m
         THEN Min(UNIT, ((IndexOf(st.recent_modules, m, 1) + 1) * UNIT)
                          \div Max(Len(st.recent_modules), 1))
    ELSE (8 * UNIT) \div 10

\* engine._calc_recency_score
_calc_recency_score(m, st) ==
    IF st.recent_modules = << >> THEN UNIT \div 2
    ELSE IF \E i \in 1..Len(st.recent_modules) : st.recent_modules[i] = m
         THEN Min(UNIT, (IndexOf(st.recent_modules, m, 1) * UNIT)
                          \div Max(Len(st.recent_modules), 1))
    ELSE (8 * UNIT) \div 10

RECURSIVE SumWeights(_, _, _)
SumWeights(skills, weights, n) ==
    IF n = 0 THEN 0 ELSE weights[skills[n]] + SumWeights(skills, weights, n - 1)

\* engine._calc_goal_alignment: (avg - 0.7) / 0.8 clipped to [0,1]
_calc_goal_alignment(m, st) ==
    IF st.target_role = NoRole \/ remediation_skills(m) = << >>
    THEN UNIT \div 2
    ELSE LET skills == remediation_skills(m)
             sum == SumWeights(skills, GOAL_SKILL_WEIGHTS(st.target_role),
                               Len(skills))
         IN  Min(UNIT, Max(0, ((sum * UNIT) \div Len(skills) - 7 * UNIT) \div 8))

\* a row of user_patterns as the engine reads it: the skill labels its
\* description contains, its confidence in hundredths, and whether the
\* confidence is a float at all (NULL or NUMERIC is not)
Pattern(mentions, confidence, is_float) ==
    [mentions |-> mentions, confidence |-> confidence, is_float |-> is_float]

\* the inner loop of _calc_pattern_signal for one pattern: its confidence
\* once for each remediation skill whose label the description contains
RECURSIVE PatternHits(_, _, _)
PatternHits(skills, pattern, n) ==
    IF n = 0 THEN 0
    ELSE PatternHits(skills, pattern, n - 1)
           + (IF skills[n] \in pattern.mentions
              THEN (pattern.confidence * UNIT) \div 100 ELSE 0)

RECURSIVE relevant_patterns(_, _, _)
relevant_patterns(skills, patterns, n) ==
    IF n = 0 THEN 0
    ELSE relevant_patterns(skills, patterns, n - 1)
           + PatternHits(skills, patterns[n], Len(skills))

\* engine._calc_pattern_signal
_calc_pattern_signal(m, mem) ==
    IF mem.patterns = << >> THEN UNIT \div 2
    ELSE IF remediation_skills(m) = << >> THEN (3 * UNIT) \div 10
    ELSE Min(UNIT, relevant_patterns(remediation_skills(m), mem.patterns,
                                     Len(mem.patterns)))

\* _calc_pattern_signal adds a confidence that is no float: TypeError,
\* there or in the weighted total
pattern_raises(m, mem) ==
    \E n \in 1..Len(mem.patterns) :
        /\ ~mem.patterns[n].is_float
        /\ \E k \in 1..Len(remediation_skills(m)) :
              remediation_skills(m)[k] \in mem.patterns[n].mentions

\* engine._calc_cooldown_penalty
_calc_cooldown_penalty(m, st) ==
    IF st.recent_modules = << >> THEN 0
    ELSE IF st.recent_modules[1] = m THEN (3 * UNIT) \div 10
    ELSE IF \E i \in 1..Min(Len(st.recent_modules),
                            min_modules_before_repeat + 1) :
               st.recent_modules[i] = m
         THEN (15 * UNIT) \div 100
    ELSE 0

RECURSIVE SumVisits(_, _)
SumVisits(counts, n) ==
    IF n = 0 THEN 0 ELSE counts[ModuleOrder[n]] + SumVisits(counts, n - 1)

\* engine._calc_diversity_bonus
_calc_diversity_bonus(m, st) ==
    LET total == SumVisits(st.module_visit_counts, Len(ModuleOrder))
        total_visits == IF total = 0 THEN 1 ELSE total
    IN  Max(0, UNIT - (3 * st.module_visit_counts[m] * UNIT) \div total_visits)

\* engine._score_candidate
_score_candidate(m, st, mem) ==
    LET sev == _calc_weakness_severity(m, st)
        roc == _calc_rate_of_change(mem)
        rec == _calc_recency_score(m, st)
        goal == _calc_goal_alignment(m, st)
        pat == _calc_pattern_signal(m, mem)
        cd == _calc_cooldown_penalty(m, st)
        div == _calc_diversity_bonus(m, st)
    IN  [ module |-> m,
          weakness_severity_score |-> sev,
          rate_of_change_score |-> roc,
          recency_score |-> rec,
          goal_alignment_score |-> goal,
          pattern_score |-> pat,
          cooldown_penalty |-> cd,
          diversity_bonus |-> div,
          total_score |->
              ( sev * weakness_severity_weight
                + roc * rate_of_change_weight
                + rec * recency_weight
                + goal * goal_alignment_weight
                + pat * pattern_weight
                + div * diversity_bonus_weight
                - cd * 20 ) * module_weight(m) ]

\* insert x after the elements of the sorted list q whose key is not
\* smaller: list.sort(key=total_score, reverse=True) is stable
RECURSIVE InsertDesc(_, _, _)
InsertDesc(q, x, i) ==
    IF i > Len(q) THEN Append(q, x)
    ELSE IF q[i].total_score >= x.total_score THEN InsertDesc(q, x, i + 1)
    ELSE SubSeq(q, 1, i - 1) \o << x >> \o SubSeq(q, i, Len(q))

\* a sort that leaves the list as scored
sort_scored_noop(scored, n) == SubSeq(scored, 1, n)

RECURSIVE sort_scored(_, _)
sort_scored(scored, n) ==
    IF n = 0 THEN << >>
    ELSE InsertDesc(sort_scored(scored, n - 1), scored[n], 1)

\* number of leading entries of recent_modules equal to the first
RECURSIVE Consecutive(_, _)
Consecutive(q, i) ==
    IF i > Len(q) \/ q[i] # q[1] THEN 0 ELSE 1 + Consecutive(q, i + 1)

\* a filter that never overrides
_apply_diversity_filter_off(scored, st) == scored[1]

\* engine._apply_diversity_filter
_apply_diversity_filter(scored, st) ==
    IF st.recent_modules = << >> THEN scored[1]
    ELSE IF /\ Consecutive(st.recent_modules, 1) >= max_consecutive_same_module
            /\ scored[1].module = st.recent_modules[1]
            /\ Len(scored) > 1
         THEN scored[2]
    ELSE scored[1]

\* a _calculate_confidence that takes the gap to the last candidate
_calculate_confidence_last(scored) ==
    IF Len(scored) < 2 THEN 100
    ELSE IF scored[1].total_score <= 0 THEN 50
    ELSE Min(100, Max(30,
             50 + ((scored[1].total_score - scored[Len(scored)].total_score)
                     * 100) \div scored[1].total_score))

\* engine._calculate_confidence, in percent (rounded down)
_calculate_confidence(scored) ==
    IF Len(scored) < 2 THEN 100
    ELSE IF scored[1].total_score <= 0 THEN 50
    ELSE Min(100, Max(30,
             50 + ((scored[1].total_score - scored[2].total_score) * 100)
                     \div scored[1].total_score))

\* models.UserState as the engine reads it; scores in the order of
\* DIMENSIONS
UserState(scores, target_role, recent_modules, module_visit_counts) ==
    [ scores |-> scores,
      next_module |-> "None",
      target_role |-> target_role,
      recent_modules |-> recent_modules,
      module_visit_counts |-> module_visit_counts ]

NoVisits == [m \in ModuleNames |-> 0]

\* DEFAULT_SCORES
DEFAULT_SCORES == [i \in Fields |-> ONE]

\* UserState(user_id=user_id, scores=SkillScores(**DEFAULT_SCORES))
DefaultUserState == UserState(DEFAULT_SCORES, NoRole, << >>, NoVisits)

\* memory_context = {} and the context of a user without memory rows
EmptyMemory ==
    [ stats |-> FALSE, weakness_events |-> 0, strength_events |-> 0,
      other_events |-> 0, patterns |-> << >> ]

NoDecision ==
    [ raised |-> FALSE, next_module |-> "None", depth |-> "None",
      weakness_trigger |-> 0, confidence |-> 0, candidate_scores |-> << >> ]

\* DecisionEngine.decide; raised: the call ends with an exception
decide(st, mem, service_health) ==
    LET depth == _determine_depth(st)
        candidates == _get_candidates(st.recent_modules # << >>, service_health)
    IN  IF candidates = << >>
        THEN [ raised |-> FALSE,
               next_module |-> "project_studio",
               depth |-> depth,
               weakness_trigger |-> 0,
               confidence |-> 50,
               candidate_scores |-> << >> ]
        ELSE IF \E i \in 1..Len(candidates) : pattern_raises(candidates[i], mem)
        THEN [NoDecision EXCEPT !.raised = TRUE]
        ELSE LET scored == sort_scored(
                     [i \in 1..Len(candidates) |->
                        _score_candidate(candidates[i], st, mem)],
                     Len(candidates))
                 winner == _apply_diversity_filter(scored, st)
             IN  [ raised |-> FALSE,
                   next_module |-> winner.module,
                   depth |-> depth,
                   weakness_trigger |->
                       weakest_dimension(st.scores, weakness_threshold),
                   confidence |-> _calculate_confidence(scored),
                   candidate_scores |-> SubSeq(scored, 1, Min(5, Len(scored))) ]

\* ------------------------------------- SpecDecide: one call of decide

\* skill profiles, in hundredths: healthy, at the thresholds, one
\* dimension critical, one dimension weak, two critical
Profile(a, b, c, d, f) ==
    << a * Hundredth, b * Hundredth, c * Hundredth, d * Hundredth,
       f * Hundredth >>
OneLow(i, low, rest) == [j \in Fields |-> (IF j = i THEN low ELSE rest) * Hundredth]
ScoreProfiles ==
    { Profile(100, 100, 100, 100, 100), Profile(40, 40, 40, 40, 40),
      Profile(20, 45, 20, 80, 39), Profile(10, 90, 90, 5, 90) }
    \cup {OneLow(i, 10, 100) : i \in Fields}
    \cup {OneLow(i, 19, 40) : i \in Fields}
    \cup {Profile(99, 99, 99, 99, 99), Profile(98, 100, 100, 100, 100)}

RECURSIVE SeqsUpTo(_, _)
SeqsUpTo(S, n) ==
    IF n = 0 THEN {<< >>}
    ELSE LET shorter == SeqsUpTo(S, n - 1)
         IN  shorter \cup {Append(q, x) : q \in {p \in shorter : Len(p) = n - 1},
                                          x \in S}

\* SELECT next_module, COUNT(*) ... GROUP BY next_module over the rows q
CountVisits(q) ==
    [m \in ModuleNames |-> Cardinality({i \in 1..Len(q) : q[i] = m})]

\* the modules that occur in the decision history of a decide call
HistoryModules ==
    { "production_interview", "interactive_course", "dsa_practice",
      "project_studio" }

\* module_visit_counts for the history q: the history is all there is, or
\* many older visits to the remediation modules precede it
OlderVisits == [m \in ModuleNames |-> IF remediation_skills(m) # << >> THEN 9 ELSE 0]
VisitCounts(q) ==
    { CountVisits(q),
      [m \in ModuleNames |-> CountVisits(q)[m] + OlderVisits[m]] }

TargetRoles ==
    {NoRole, "devops_engineer", "frontend_engineer", "data_scientist"}

MemoryContexts ==
    { EmptyMemory,
      [ stats |-> TRUE, weakness_events |-> 3, strength_events |-> 1,
        other_events |-> 0, patterns |-> << >> ],
      [ stats |-> TRUE, weakness_events |-> 4, strength_events |-> 0,
        other_events |-> 0, patterns |-> << Pattern({1, 3}, 50, TRUE) >> ],
      [ stats |-> TRUE, weakness_events |-> 0, strength_events |-> 4,
        other_events |-> 0,
        patterns |-> << Pattern({2, 4}, 80, TRUE), Pattern({5}, 60, TRUE) >> ],
      [ stats |-> TRUE, weakness_events |-> 0, strength_events |-> 0,
        other_events |-> 2, patterns |-> << Pattern({}, 50, TRUE) >> ],
      [ stats |-> TRUE, weakness_events |-> 1, strength_events |-> 1,
        other_events |-> 0, patterns |-> << Pattern({1}, 0, FALSE) >> ],
      [ stats |-> TRUE, weakness_events |-> 0, strength_events |-> 3,
        other_events |-> 0, patterns |-> << Pattern({}, 50, TRUE) >> ] }

\* service_health maps: the modules of `down` are unhealthy
HealthMap(down) == [m \in ModuleNames |-> m \notin down]
HealthMaps ==
    { HealthMap({}), HealthMap(ModuleServices),
      HealthMap({"production_interview"}),
      HealthMap(ModuleServices \ {"dsa_practice", "production_interview"}) }

DefaultInput ==
    [st |-> DefaultUserState, mem |-> EmptyMemory, health |-> HealthMap({})]

\* engine.decide(user_state, memory_context, service_health)
Decide ==
    /\ decision = NoDecision
    /\ decision' = decide(decideIn.st, decideIn.mem, decideIn.health)
    /\ UNCHANGED <<decideIn, notDecide>>

NextDecide == Decide



\* --------------------------------- state_manager.py: get_user_state

\* LIMIT 10 of the history query
history_limit == 10

\* SELECT next_module FROM orchestrator_decisions ORDER BY created_at
\* DESC LIMIT 10, for the table rows in insertion order
recent_of(table) ==
    LET n == Min(Len(table), history_limit)
    IN  [i \in 1..n |-> table[Len(table) + 1 - i]]

\* COALESCE(column, 1.0) of the five columns
coalesced(row) == [i \in Fields |-> COALESCE(row.vals[i], [k |-> "num", v |-> ONE])]

\* SkillScores(...) accepts the values: floats with ge=0.0, le=1.0
valid_scores(vals) ==
    \A i \in Fields : vals[i].k = "num" /\ 0 <= vals[i].v /\ vals[i].v <= ONE

GetOutcomes ==
    {"ok", "acquire_fails", "fetch_fails", "history_fails", "counts_fail"}

\* a get_user_state without its INSERT ... ON CONFLICT DO NOTHING
get_user_state_row_read_only(row, outcome) == row

\* StateManager.get_user_state: the row after the upsert
get_user_state_row(row, outcome) ==
    IF outcome = "acquire_fails" THEN row ELSE user_state_upsert(row)

\* a get_user_state that answers a failed read with scores of zero
get_user_state_zero(row, table, role, outcome) ==
    IF outcome \in {"acquire_fails", "fetch_fails"}
    THEN UserState([i \in Fields |-> 0], NoRole, << >>, NoVisits)
    ELSE IF ~valid_scores(coalesced(user_state_upsert(row)))
         THEN DefaultUserState
    ELSE [UserState(
            [i \in Fields |-> coalesced(user_state_upsert(row))[i].v],
            IF outcome = "onboarding_fails" THEN NoRole ELSE role,
            IF outcome = "history_fails" THEN << >> ELSE recent_of(table),
            IF outcome \in {"history_fails", "counts_fail"} THEN NoVisits
            ELSE CountVisits(table))
          EXCEPT !.next_module = row.next_module]

\* a get_user_state whose history block assigns both results after both
\* queries
get_user_state_both(row, table, role, outcome) ==
    IF outcome \in {"acquire_fails", "fetch_fails"} THEN DefaultUserState
    ELSE IF ~valid_scores(coalesced(user_state_upsert(row)))
         THEN DefaultUserState
    ELSE [UserState(
            [i \in Fields |-> coalesced(user_state_upsert(row))[i].v],
            IF outcome = "onboarding_fails" THEN NoRole ELSE role,
            IF outcome \in {"history_fails", "counts_fail"} THEN << >>
            ELSE recent_of(table),
            IF outcome \in {"history_fails", "counts_fail"} THEN NoVisits
            ELSE CountVisits(table))
          EXCEPT !.next_module = row.next_module]

\* StateManager.get_user_state: the UserState returned; every exception
\* outside the two inner try blocks gives the defaults.  outcome names
\* the first statement that raises: the acquire or the upsert, the
\* fetchrow, the onboarding query, the history query or the count query
get_user_state(row, table, role, outcome) ==
    IF outcome \in {"acquire_fails", "fetch_fails"} THEN DefaultUserState
    ELSE IF ~valid_scores(coalesced(user_state_upsert(row)))
         THEN DefaultUserState
    ELSE [UserState(
            [i \in Fields |-> coalesced(user_state_upsert(row))[i].v],
            IF outcome = "onboarding_fails" THEN NoRole ELSE role,
            IF outcome = "history_fails" THEN << >> ELSE recent_of(table),
            IF outcome \in {"history_fails", "counts_fail"} THEN NoVisits
            ELSE CountVisits(table))
          EXCEPT !.next_module = row.next_module]

\* StateManager.update_next_module: UPDATE user_state SET next_module,
\* last_update = NOW() WHERE user_id; no row, no change
update_next_module(row, module, t) ==
    IF ~row.exists THEN row
    ELSE [row EXCEPT !.next_module = module, !.last_update = t]

\* get_user_state gave the engine the stored decision history
history_read(row, outcome) ==
    /\ outcome \in {"ok", "onboarding_fails", "counts_fail"}
    /\ valid_scores(coalesced(user_state_upsert(row)))

\* ------------------------------ SpecRead: one get_user_state call

\* no call: nothing stored, nothing returned
NoReadIn ==
    [row |-> NoUserRow, table |-> << >>, role |-> NoRole, outcome |-> "ok"]
NoRead == [called |-> FALSE, row |-> NoUserRow, state |-> DefaultUserState]

\* user_state rows a call can find: none, one with NULL averages, one
\* written by the aggregate and update_next_module, one with averages
\* outside [0,1]
ReadRows ==
    { NoUserRow,
      [exists |-> TRUE, vals |-> AllNull, next_module |-> "None",
       last_update |-> 0],
      [exists |-> TRUE,
       vals |-> << Num(50), Num(0), Num(100), NullV, Num(80) >>,
       next_module |-> "dsa_practice", last_update |-> 1],
      [exists |-> TRUE,
       vals |-> << Num(150), Num(0 - 50), Num(80), Num(40), NullV >>,
       next_module |-> "None", last_update |-> 1] }

\* orchestrator_decisions rows of the user, oldest first
ReadTables ==
    UNION { [1..n -> {"dsa_practice", "production_interview"}] :
            n \in 0..MaxHistory }

ReadOutcomes == GetOutcomes \cup {"onboarding_fails"}

\* await state_mgr.get_user_state(user_id)
GetUserState ==
    /\ ~readOut.called
    /\ readOut' =
          [called |-> TRUE,
           row |-> get_user_state_row(readIn.row, readIn.outcome),
           state |-> get_user_state(readIn.row, readIn.table, readIn.role,
                                    readIn.outcome)]
    /\ UNCHANGED <<readIn, now, cbVars, regVars, evalVars, decideVars,
                   nextVars, aggVars, authVars, healthVars, histVars,
                   lateVars>>

NextRead == GetUserState

\* ------------------------------------------- api-gateway: GET /api/next

\* one served call: the response's next_module, confidence (percent),
\* depth and decision_id (persisted: it is not None), and of the call
\* itself: db (no_pool: no state manager; down: no connection could be
\* acquired; up), kind (which return statement answered), the number of
\* candidates, the best-scored candidate and whether get_user_state
\* returned the stored decision history

\* the response without a state manager
NoDbResponse ==
    [ kind |-> "no_db", db |-> "no_pool", next_module |-> "project_studio",
      confidence |-> 50, depth |-> "normal", persisted |-> FALSE,
      candidates |-> 0, top |-> "None", history_read |-> FALSE ]

\* the response of the except branch
ErrorResponse(db) ==
    [ kind |-> "error", db |-> db, next_module |-> "project_studio",
      confidence |-> 30, depth |-> "normal", persisted |-> FALSE,
      candidates |-> 0, top |-> "None", history_read |-> FALSE ]

\* the response built from the Decision
EngineResponse(db, d, persisted, history) ==
    [ kind |-> "engine", db |-> db, next_module |-> d.next_module,
      confidence |-> d.confidence, depth |-> d.depth,
      persisted |-> persisted,
      candidates |-> Len(d.candidate_scores),
      top |-> IF d.candidate_scores = << >> THEN "None"
              ELSE d.candidate_scores[1].module,
      history_read |-> history ]

\* breaker and ServiceHealth of a service after n probes with the same
\* outcome, one per health_check_interval_s, the last at time t
RECURSIVE Probed(_, _, _)
Probed(outcome, n, t) ==
    IF n = 0 THEN [cb |-> NewBreaker, svc |-> NewServiceHealth(FALSE)]
    ELSE LET before == Probed(outcome, n - 1, t - health_check_interval_s)
         IN  [ cb |-> IF outcome = "200" THEN record_success(before.cb, t)
                      ELSE record_failure(before.cb, t),
               svc |-> check_service_result(before.svc, outcome) ]

\* the user's rows of user_state and user_onboarding as earlier requests
\* left them: a new user, an onboarded user with clarity 0, a user whose
\* averages are outside [0, 1]
Row(vals) ==
    [exists |-> TRUE, vals |-> vals, next_module |-> "None", last_update |-> 1]
StoredUsers ==
    { [row |-> NoUserRow, role |-> NoRole],
      [row |-> Row(<< Num(0), Num(100), Num(100), Num(100), Num(100) >>),
       role |-> "frontend_engineer"],
      [row |-> Row(<< Num(150), Num(0 - 50), Num(80), Num(40), NullV >>),
       role |-> NoRole] }

\* what memory.get_orchestrator_context can return for the user: nothing
\* stored, or a pattern whose confidence is not a float
StoredMemory ==
    { EmptyMemory,
      [ stats |-> TRUE, weakness_events |-> 1, strength_events |-> 1,
        other_events |-> 0, patterns |-> << Pattern({1}, 0, FALSE) >> ] }

\* sets of module services whose health probes time out
DownSets == { {}, {"production_interview"}, ModuleServices }

\* api_next; dbUp: connections can be acquired, outcome: how
\* get_user_state ends, mem: the memory context, saved: the statements of
\* step 6 (record_decision, update_next_module) succeed.
ApiNext(dbUp, outcome, mem, saved) ==
    /\ Len(nextCalls) < MaxCalls
    /\ IF ~pool
       THEN /\ nextCalls' = Append(nextCalls, NoDbResponse)
            /\ UNCHANGED <<userRow, cb, decisionsTable>>
       ELSE LET g == IF dbUp THEN outcome ELSE "acquire_fails"
                memory_context == IF dbUp THEN mem ELSE EmptyMemory
                db == IF dbUp THEN "up" ELSE "down"
                user_state ==
                    get_user_state(userRow, decisionsTable, targetRole, g)
            IN  \E d \in {decide(user_state, memory_context,
                                 service_health_map(svc, cb, now))} :
                  \E persisted \in {dbUp /\ saved /\ ~d.raised} :
                    /\ userRow' =
                           IF persisted
                           THEN update_next_module(
                                    get_user_state_row(userRow, g),
                                    d.next_module, now)
                           ELSE get_user_state_row(userRow, g)
                    /\ cb' = health_reads(svc, cb, 1, now)
                    /\ decisionsTable' =
                           IF persisted
                           THEN Append(decisionsTable, d.next_module)
                           ELSE decisionsTable
                    /\ nextCalls' = Append(nextCalls,
                           IF d.raised THEN ErrorResponse(db)
                           ELSE EngineResponse(db, d, persisted,
                                               history_read(userRow, g)))
    /\ UNCHANGED <<now, callers, wasReset, svc, monitor, lastCandidates,
                   candFresh, pool, interactions, scoresTable, evalReq,
                   evalCalls, aggregatedRows, stmtFailed, targetRole,
                   decideVars, unitVars>>

NextNext ==
    \/ ApiNext(FALSE, "acquire_fails", EmptyMemory, FALSE)
    \/ \E outcome \in GetOutcomes \ {"acquire_fails"}, mem \in StoredMemory,
          saved \in BOOLEAN : ApiNext(TRUE, outcome, mem, saved)

\* ------------- SpecRows: /api/next and evaluate calls for one user

\* scores rows of an evaluate call whose LLM call failed / succeeded
StoredScoreRows == {AllNull, << Num(50), Num(0), Num(100), NullV, Num(80) >>}

\* one evaluate call from save_scores to update_user_state
EvaluateCall(row, outcome) ==
    /\ pool
    /\ Len(scoresTable) < MaxRows
    /\ scoresTable' = Append(scoresTable, row)
    /\ userRow' = update_user_state(userRow, Append(scoresTable, row), now,
                                    outcome)
    /\ UNCHANGED <<pool, interactions, evalReq, evalCalls, aggregatedRows,
                   stmtFailed, now, cbVars, regVars, decideVars, nextVars,
                   unitVars>>

NextRows ==
    \/ ApiNext(FALSE, "acquire_fails", EmptyMemory, FALSE)
    \/ \E outcome \in GetOutcomes \ {"acquire_fails"}, mem \in StoredMemory,
          saved \in BOOLEAN : ApiNext(TRUE, outcome, mem, saved)
    \/ \E row \in StoredScoreRows, outcome \in AggregateOutcomes :
          EvaluateCall(row, outcome)

\* --------------------------------------- SpecCounter: metrics.Counter

Threads == 1..NumThreads

\* labels passed to inc (decisions_total.inc(module))
Labels == {"dsa_practice", "project_studio"}

\* Counter(name): _value = 0 and _per_label = defaultdict(int)
NewCounter == [value |-> 0, per_label |-> [l \in Labels |-> 0]]

NoInc == [pc |-> "idle", label |-> "dsa_practice", loaded |-> 0]

\* inc(label): the thread evaluates self._value
IncLoadValue(t, label) ==
    /\ incCalls[t].pc = "idle"
    /\ incReturned.value
         + Cardinality({u \in Threads : incCalls[u].pc # "idle"}) < MaxIncs
    /\ incCalls' = [incCalls EXCEPT ![t] =
          [pc |-> "value_loaded", label |-> label, loaded |-> counter.value]]
    /\ UNCHANGED <<counter, incReturned, notCounter>>

\* self._value += amount: the sum is stored
IncStoreValue(t) ==
    /\ incCalls[t].pc = "value_loaded"
    /\ counter' = [counter EXCEPT !.value = incCalls[t].loaded + 1]
    /\ incCalls' = [incCalls EXCEPT ![t].pc = "value_stored"]
    /\ UNCHANGED <<incReturned, notCounter>>

\* the thread evaluates self._per_label[label]
IncLoadLabel(t) ==
    /\ incCalls[t].pc = "value_stored"
    /\ incCalls' = [incCalls EXCEPT
          ![t].pc = "label_loaded",
          ![t].loaded = counter.per_label[incCalls[t].label]]
    /\ UNCHANGED <<counter, incReturned, notCounter>>

\* self._per_label[label] += amount: the sum is stored; inc returns
IncStoreLabel(t) ==
    /\ incCalls[t].pc = "label_loaded"
    /\ counter' = [counter EXCEPT
          !.per_label[incCalls[t].label] = incCalls[t].loaded + 1]
    /\ incReturned' = [incReturned EXCEPT
          !.value = @ + 1,
          !.per_label[incCalls[t].label] = @ + 1]
    /\ incCalls' = [incCalls EXCEPT ![t] = NoInc]
    /\ UNCHANGED notCounter

NextCounter ==
    \/ \E t \in Threads, label \in Labels : IncLoadValue(t, label)
    \/ \E t \in Threads : IncStoreValue(t)
    \/ \E t \in Threads : IncLoadLabel(t)
    \/ \E t \in Threads : IncStoreLabel(t)

\* ------------------------- SpecParse: _parse_scores on any LLM content

\* JSON objects the LLM can answer with: every dimension a number, null
\* or a string that is no number
ParseObjects ==
    LLMObjects \cup [Fields -> {Num(70), NullV, BadStr}]
ParseContents ==
    {[kind |-> NotJson, data |-> AllNull]}
    \cup {[kind |-> "json", data |-> o] : o \in ParseObjects}

NoParseIn == [kind |-> "none", data |-> AllNull]
NoParse == [called |-> FALSE, scores |-> AllNull, end |-> "none"]

\* scorer._parse_scores / the gateway's _parse_scores called on content
ParseScores ==
    /\ parseOut = NoParse
    /\ parseIn \in ParseContents
    /\ LET p == _parse_scores(parseIn)
       IN  parseOut' = [called |-> TRUE, scores |-> p.scores, end |-> p.end]
    /\ UNCHANGED <<parseIn, notParse>>

NextParse == ParseScores

\* --------------------------------- SpecRules: the legacy rules.decide

\* WEAKNESS_THRESHOLD of rules.py
WEAKNESS_THRESHOLD == 40 * Hundredth

\* `state.get(key, 1.0) or 1.0`: the default for a missing key, and for
\* every falsy value (None, 0.0) too
get_or_one(v) ==
    IF v.k \in {"absent", "null"} THEN ONE
    ELSE IF v.v = 0 THEN ONE
    ELSE v.v

\* the module of rules 1 to 5, by dimension
RuleModule ==
    << "production_interview", "interactive_course", "production_interview",
       "interactive_course", "dsa_practice" >>

\* rules.decide(state): the module of the first rule that fires
rules_decide(st) ==
    LET low == {i \in Fields : get_or_one(st[i]) < WEAKNESS_THRESHOLD}
    IN  IF low = {} THEN "project_studio"
        ELSE RuleModule[CHOOSE i \in low : \A j \in low : i <= j]

\* the averages of a user_state row: nothing stored, 0.0, next to the
\* threshold on both sides, 1.0
RuleValues == {NullV, Num(0), Num(39), Num(40), Num(100)}
RuleStates == [Fields -> RuleValues]

NoRuleIn == [i \in Fields |-> NullV]
NoRuleOut == [called |-> FALSE, next_module |-> "None"]

\* get_next_module of the legacy service, step 2: decide(state)
RulesDecide ==
    /\ ~ruleOut.called
    /\ ruleOut' = [called |-> TRUE, next_module |-> rules_decide(ruleIn)]
    /\ UNCHANGED <<ruleIn, notRule>>

NextRules == RulesDecide

\* ------------------- SpecOverlap: overlapping /api/next requests

Tasks == 1..NumTasks
NoTask == [pc |-> "idle", decision |-> NoDecision]

\* requests between their first await and their response
Overlapping == {r \in Tasks : apiReq[r].pc # "idle"}

\* api_next, steps 1 to 4: get_user_state (its upsert, the scores, the
\* role, the history as it is stored at the moment), the memory context
\* of a user without memory rows, the health map and decide.  Every
\* statement succeeds.
ApiNextDecide(r) ==
    /\ pool
    /\ apiReq[r].pc = "idle"
    /\ Len(nextCalls) + Cardinality(Overlapping) < MaxNextCalls
    /\ LET user_state ==
               get_user_state(userRow, decisionsTable, targetRole, "ok")
       IN  \E d \in {decide(user_state, EmptyMemory,
                            service_health_map(svc, cb, now))} :
             /\ ~d.raised
             /\ apiReq' = [apiReq EXCEPT ![r] =
                    [pc |-> "record_decision", decision |-> d]]
    /\ userRow' = get_user_state_row(userRow, "ok")
    /\ cb' = health_reads(svc, cb, 1, now)
    /\ UNCHANGED <<now, callers, wasReset, regVars, pool, interactions,
                   scoresTable, evalReq, evalCalls, aggregatedRows,
                   stmtFailed, decideVars, nextVars, aggVars, authVars,
                   healthVars, histVars, readVars, counterVars, parseVars,
                   ruleVars>>

\* api_next, step 6 after the LLM reasoning: record_decision inserts the
\* row of orchestrator_decisions
ApiNextRecord(r) ==
    /\ apiReq[r].pc = "record_decision"
    /\ decisionsTable' = Append(decisionsTable, apiReq[r].decision.next_module)
    /\ apiReq' = [apiReq EXCEPT ![r].pc = "update_next_module"]
    /\ UNCHANGED <<now, cbVars, regVars, evalVars, decideVars, targetRole,
                   nextCalls, aggVars, authVars, healthVars, histVars,
                   readVars, counterVars, parseVars, ruleVars>>

\* api_next, step 6: update_next_module, then the response
ApiNextUpdate(r) ==
    /\ apiReq[r].pc = "update_next_module"
    /\ userRow' = update_next_module(userRow, apiReq[r].decision.next_module,
                                     now)
    /\ nextCalls' = Append(nextCalls,
                           EngineResponse("up", apiReq[r].decision, TRUE, TRUE))
    /\ apiReq' = [apiReq EXCEPT ![r] = NoTask]
    /\ UNCHANGED <<now, cbVars, regVars, pool, interactions, scoresTable,
                   evalReq, evalCalls, aggregatedRows, stmtFailed,
                   decideVars, decisionsTable, targetRole, aggVars, authVars,
                   healthVars, histVars, readVars, counterVars, parseVars,
                   ruleVars>>

NextOverlap ==
    \/ \E r \in Tasks : ApiNextDecide(r)
    \/ \E r \in Tasks : ApiNextRecord(r)
    \/ \E r \in Tasks : ApiNextUpdate(r)

\* ------------------------------------ SpecHist: metrics.Histogram

\* values passed to observe
Samples == {10, 20, 30}

\* a deque(maxlen).append that ignores the value when the deque is full
deque_append_full(samples, maxlen, value) ==
    IF Len(samples) >= maxlen THEN samples ELSE Append(samples, value)

\* deque(maxlen=maxlen).append(value): a full deque discards its leftmost
\* item first; a deque of maxlen 0 stays empty
deque_append(samples, maxlen, value) ==
    IF maxlen = 0 THEN samples
    ELSE IF Len(samples) = maxlen THEN Append(Tail(samples), value)
    ELSE Append(samples, value)

\* Histogram.observe
Observe(value) ==
    /\ Len(observed) < MaxObserve
    /\ hist' = [hist EXCEPT
                   !.samples = deque_append(@, hist.maxlen, value)]
    /\ observed' = Append(observed, value)
    /\ UNCHANGED <<now, cbVars, regVars, evalVars, decideVars, nextVars,
                   aggVars, authVars, healthVars, readVars, lateVars>>

NextHist == \E value \in Samples : Observe(value)

\* ------------------- SpecAgg: update_user_state called for one user

\* the scores rows that evaluate calls insert
ScoreRows == {score(reply) : reply \in LLMReplies}

\* an evaluate call inserts a scores row
InsertScores(row) ==
    /\ Len(scoresTable) < MaxRows
    /\ scoresTable' = Append(scoresTable, row)
    /\ aggCalls' = 0
    /\ UNCHANGED <<pool, interactions, userRow, evalReq, evalCalls,
                   aggregatedRows, stmtFailed, now, notAgg>>

\* one call of update_user_state
UpdateUserState(outcome) ==
    /\ aggCalls < MaxAggCalls
    /\ userRow' = update_user_state(userRow, scoresTable, now, outcome)
    /\ aggregatedRows' =
          IF outcome = "ok" THEN Len(scoresTable) ELSE aggregatedRows
    /\ stmtFailed' = (stmtFailed \/ outcome # "ok")
    /\ aggCalls' = IF outcome = "ok" THEN aggCalls + 1 ELSE aggCalls
    /\ UNCHANGED <<pool, interactions, scoresTable, evalReq, evalCalls,
                   now, notAgg>>

\* time passes between two statements
TickAgg ==
    /\ now <= MaxTicks
    /\ now' = now + 1
    /\ UNCHANGED <<evalVars, aggVars, notAgg>>

NextAgg ==
    \/ \E row \in ScoreRows : InsertScores(row)
    \/ \E o \in AggregateOutcomes : UpdateUserState(o)
    \/ TickAgg

\* --------------------- SpecAuth: the gateway's routes and verify_token

\* routes of the gateway with their handlers
Routes ==
    { "/health", "/interviews/analyze-frame", "/api/evaluate", "/api/next",
      "/api/state/{user_id}", "/api/orchestrator/decisions",
      "/api/orchestrator/metrics", "/api/orchestrator/circuit-breakers",
      "/api/orchestrator/services", "/courses", "/api/profile/{user_id}",
      "/api/context/{user_id}" }

\* the handler of the route has a parameter Depends(verify_token)
depends_on_verify_token(route) ==
    route \in {"/courses", "/api/profile/{user_id}", "/api/context/{user_id}"}

\* Authorization headers: none, or a bearer JWT signed with the Supabase
\* secret, the gateway's JWT_SECRET or another key, with its aud claim,
\* its expiry and its sub and uid claims
NoToken ==
    [present |-> FALSE, key |-> "other", aud |-> "none", expired |-> FALSE,
     sub |-> FALSE, uid |-> FALSE]
Tokens ==
    {NoToken} \cup
    [present : {TRUE}, key : {"supabase", "legacy", "other"},
     aud : {"none", "authenticated", "other"}, expired : BOOLEAN,
     sub : BOOLEAN, uid : BOOLEAN]

\* jwt.decode(token, secret, algorithms, audience) returns the payload:
\* signature and expiry are verified; an aud claim must contain the
\* audience asked for, and a token with an aud claim is refused when none
\* is asked for
jwt_decode(token, key, audience) ==
    /\ token.key = key
    /\ ~token.expired
    /\ IF audience = "none" THEN token.aud = "none"
       ELSE token.aud = audience

\* verify_token: "user" for a returned user id, "401" for HTTPException
verify_token(token, supabase) ==
    IF ~token.present THEN "401"
    ELSE IF supabase /\ jwt_decode(token, "supabase", "authenticated")
              /\ token.sub
         THEN "user"
    ELSE IF jwt_decode(token, "legacy", "none")
         THEN IF token.uid \/ token.sub THEN "user" ELSE "401"
    ELSE "401"

NoRequest ==
    [pc |-> "none", route |-> "/health", token |-> NoToken,
     status |-> "none"]

\* a client sends a request
Receive(route, token) ==
    /\ httpReq.pc = "none"
    /\ httpReq' = [pc |-> "received", route |-> route, token |-> token,
                   status |-> "none"]
    /\ UNCHANGED <<supabaseSecret, notAuth>>

\* FastAPI solves the handler's dependencies and, unless one of them
\* raised, runs the handler
Dispatch ==
    /\ httpReq.pc = "received"
    /\ httpReq' = [httpReq EXCEPT
          !.pc = "answered",
          !.status =
              IF depends_on_verify_token(httpReq.route)
                   /\ verify_token(httpReq.token, supabaseSecret) = "401"
              THEN "401"
              ELSE "served"]
    /\ UNCHANGED <<supabaseSecret, notAuth>>

\* the response is sent
Respond ==
    /\ httpReq.pc = "answered"
    /\ httpReq' = NoRequest
    /\ UNCHANGED <<supabaseSecret, notAuth>>

NextAuth ==
    \/ \E route \in Routes, token \in Tokens : Receive(route, token)
    \/ Dispatch
    \/ Respond

\* ------------------------------------------------- initial states, specifications

\* the registry is idle in SpecCB
RegistryIdle ==
    /\ svc = << >>
    /\ monitor = [pc |-> "stopped", wakeAt |-> 0, pending |-> {}]
    /\ lastCandidates = << >>
    /\ candFresh = FALSE

\* the evaluator is idle in the other specifications
EvalIdle ==
    /\ pool = FALSE
    /\ interactions = 0
    /\ scoresTable = << >>
    /\ userRow = NoUserRow
    /\ evalReq = [r \in Requests |-> IdleRequest]
    /\ evalCalls = 0
    /\ aggregatedRows = 0
    /\ stmtFailed = FALSE

\* decide is not in use in the other specifications
DecideIdle ==
    /\ decideIn = DefaultInput
    /\ decision = NoDecision

\* the variables of the specifications of one component, at rest
AggIdle == aggCalls = 0
AuthIdle == supabaseSecret = FALSE /\ httpReq = NoRequest
HealthIdle == embeddedAnswer = "none"
HistIdle == hist = [maxlen |-> 0, samples |-> << >>] /\ observed = << >>
ReadIdle == readIn = NoReadIn /\ readOut = NoRead
CounterIdle ==
    /\ counter = NewCounter
    /\ incCalls = [t \in Threads |-> NoInc]
    /\ incReturned = NewCounter
ParseIdle == parseIn = NoParseIn /\ parseOut = NoParse
RuleIdle == ruleIn = NoRuleIn /\ ruleOut = NoRuleOut
OverlapIdle == apiReq = [r \in Tasks |-> NoTask]
LateIdle ==
    /\ CounterIdle
    /\ ParseIdle
    /\ RuleIdle
    /\ OverlapIdle

UnitIdle ==
    /\ AggIdle
    /\ AuthIdle
    /\ HealthIdle
    /\ HistIdle
    /\ ReadIdle
    /\ LateIdle

\* no /api/next call is served in the other specifications
NextIdle ==
    /\ decisionsTable = << >>
    /\ targetRole = NoRole
    /\ nextCalls = << >>

InitCB ==
    /\ now = 1
    /\ cb = [s \in {TheBreaker} |-> NewBreaker]
    /\ callers = [a \in {CLOSED, HALF_OPEN} |-> 0]
    /\ wasReset = {}
    /\ RegistryIdle
    /\ EvalIdle
    /\ DecideIdle
    /\ NextIdle
    /\ UnitIdle

SpecCB == InitCB /\ [][NextCB]_vars

InitRegistry ==
    /\ now = 1
    /\ cb = << >>
    /\ callers = [a \in {CLOSED, HALF_OPEN} |-> 0]
    /\ wasReset = {}
    /\ svc = InitialServices
    /\ monitor = [pc |-> "sleeping", wakeAt |-> 1, pending |-> {}]
    /\ lastCandidates = << >>
    /\ candFresh = FALSE
    /\ EvalIdle
    /\ DecideIdle
    /\ NextIdle
    /\ UnitIdle

SpecRegistry == InitRegistry /\ [][NextRegistry]_vars

SpecHealth == InitRegistry /\ [][NextHealth]_vars

\* Histogram(name, max_samples)
InitHist ==
    /\ \E max_samples \in 1..MaxSamples :
          hist = [maxlen |-> max_samples, samples |-> << >>]
    /\ observed = << >>
    /\ now = 1
    /\ cb = << >>
    /\ callers = [a \in {CLOSED, HALF_OPEN} |-> 0]
    /\ wasReset = {}
    /\ RegistryIdle
    /\ EvalIdle
    /\ DecideIdle
    /\ NextIdle
    /\ AggIdle
    /\ AuthIdle
    /\ HealthIdle
    /\ ReadIdle
    /\ LateIdle

SpecHist == InitHist /\ [][NextHist]_vars

\* the variables of the earlier specifications at rest
EarlyIdle ==
    /\ now = 1
    /\ cb = << >>
    /\ callers = [a \in {CLOSED, HALF_OPEN} |-> 0]
    /\ wasReset = {}
    /\ RegistryIdle
    /\ EvalIdle
    /\ DecideIdle
    /\ NextIdle
    /\ AggIdle
    /\ AuthIdle
    /\ HealthIdle
    /\ HistIdle
    /\ ReadIdle

\* Counter(name), shared by the threads
InitCounter ==
    /\ CounterIdle
    /\ ParseIdle
    /\ RuleIdle
    /\ OverlapIdle
    /\ EarlyIdle

SpecCounter == InitCounter /\ [][NextCounter]_vars

\* any content of an LLM response, before _parse_scores is called on it
InitParse ==
    /\ parseIn \in ParseContents
    /\ parseOut = NoParse
    /\ CounterIdle
    /\ RuleIdle
    /\ OverlapIdle
    /\ EarlyIdle

SpecParse == InitParse /\ [][NextParse]_vars

\* any state dict that fetch_user_state can return, before decide
InitRules ==
    /\ ruleIn \in RuleStates
    /\ ruleOut = NoRuleOut
    /\ CounterIdle
    /\ ParseIdle
    /\ OverlapIdle
    /\ EarlyIdle

SpecRules == InitRules /\ [][NextRules]_vars

\* a database in any of the modelled states, one query (or none) failing
InitRead ==
    /\ readIn \in [row : ReadRows, table : ReadTables,
                    role : {NoRole, "frontend_engineer"},
                    outcome : ReadOutcomes]
    /\ readOut = NoRead
    /\ now = 1
    /\ cb = << >>
    /\ callers = [a \in {CLOSED, HALF_OPEN} |-> 0]
    /\ wasReset = {}
    /\ RegistryIdle
    /\ EvalIdle
    /\ DecideIdle
    /\ NextIdle
    /\ AggIdle
    /\ AuthIdle
    /\ HealthIdle
    /\ HistIdle
    /\ LateIdle

SpecRead == InitRead /\ [][NextRead]_vars

\* the monitor task is scheduled while it can run, and every probe ends:
\* httpx gives up after health_check_timeout_s
SpecMonitor ==
    /\ InitRegistry
    /\ [][NextMonitor]_vars
    /\ WF_vars(RoundStart)
    /\ WF_vars(\E s \in ModuleServices, o \in ProbeOutcomes : ProbeDone(s, o))
    /\ WF_vars(RoundEnd)

\* lifespan: the pool exists or could not be created; empty tables for
\* the one user of the model
InitEval ==
    /\ pool \in BOOLEAN
    /\ interactions = 0
    /\ scoresTable = << >>
    /\ userRow = NoUserRow
    /\ evalReq = [r \in Requests |-> IdleRequest]
    /\ evalCalls = 0
    /\ aggregatedRows = 0
    /\ stmtFailed = FALSE
    /\ now = 1
    /\ cb = << >>
    /\ callers = [a \in {CLOSED, HALF_OPEN} |-> 0]
    /\ wasReset = {}
    /\ RegistryIdle
    /\ DecideIdle
    /\ NextIdle
    /\ UnitIdle

SpecEval == InitEval /\ [][NextEval]_vars

\* a gateway with a pool and a user without rows
InitAgg ==
    /\ pool = TRUE
    /\ interactions = 0
    /\ scoresTable = << >>
    /\ userRow = NoUserRow
    /\ evalReq = [r \in Requests |-> IdleRequest]
    /\ evalCalls = 0
    /\ aggregatedRows = 0
    /\ stmtFailed = FALSE
    /\ now = 1
    /\ cb = << >>
    /\ callers = [a \in {CLOSED, HALF_OPEN} |-> 0]
    /\ wasReset = {}
    /\ RegistryIdle
    /\ DecideIdle
    /\ NextIdle
    /\ UnitIdle

SpecAgg == InitAgg /\ [][NextAgg]_vars

\* the gateway is up, with or without the Supabase secret
InitAuth ==
    /\ supabaseSecret \in BOOLEAN
    /\ httpReq = NoRequest
    /\ AggIdle
    /\ HealthIdle
    /\ HistIdle
    /\ ReadIdle
    /\ LateIdle
    /\ now = 1
    /\ cb = << >>
    /\ callers = [a \in {CLOSED, HALF_OPEN} |-> 0]
    /\ wasReset = {}
    /\ RegistryIdle
    /\ EvalIdle
    /\ DecideIdle
    /\ NextIdle

SpecAuth == InitAuth /\ [][NextAuth]_vars

\* the caller of decide holds a user state, a memory context and a
\* service health map
InitDecide ==
    /\ \E scores \in ScoreProfiles, role \in TargetRoles,
          recent \in SeqsUpTo(HistoryModules, MaxRecent),
          mem \in MemoryContexts, health \in HealthMaps :
          \E visits \in VisitCounts(recent) :
            decideIn = [ st |-> UserState(scores, role, recent, visits),
                         mem |-> mem, health |-> health ]
    /\ decision = NoDecision
    /\ now = 1
    /\ cb = << >>
    /\ callers = [a \in {CLOSED, HALF_OPEN} |-> 0]
    /\ wasReset = {}
    /\ RegistryIdle
    /\ EvalIdle
    /\ NextIdle
    /\ UnitIdle

SpecDecide == InitDecide /\ [][NextDecide]_vars

\* a running gateway: every module service has been probed
\* failure_threshold times; the user's rows as earlier requests left them
InitNext ==
    /\ now = 1 + (failure_threshold - 1) * health_check_interval_s
    /\ \E down \in DownSets :
          /\ svc = [n \in ModuleServices \cup EmbeddedServices |->
                     IF n \in EmbeddedServices THEN NewServiceHealth(TRUE)
                     ELSE Probed(IF n \in down THEN "timeout" ELSE "200",
                                 failure_threshold, now).svc]
          /\ cb = [n \in ModuleServices |->
                     Probed(IF n \in down THEN "timeout" ELSE "200",
                            failure_threshold, now).cb]
    /\ callers = [a \in {CLOSED, HALF_OPEN} |-> 0]
    /\ wasReset = {}
    /\ monitor = [pc |-> "stopped", wakeAt |-> 0, pending |-> {}]
    /\ lastCandidates = << >>
    /\ candFresh = FALSE
    /\ pool \in BOOLEAN
    /\ interactions = 0
    /\ scoresTable = << >>
    /\ \E u \in StoredUsers : userRow = u.row /\ targetRole = u.role
    /\ evalReq = [r \in Requests |-> IdleRequest]
    /\ evalCalls = 0
    /\ aggregatedRows = 0
    /\ stmtFailed = FALSE
    /\ DecideIdle
    /\ decisionsTable = << >>
    /\ nextCalls = << >>
    /\ UnitIdle

SpecNext == InitNext /\ [][NextNext]_vars

\* a user without a user_state row while every service is up, with
\* evaluate calls between the /api/next calls
InitRows ==
    /\ InitNext
    /\ userRow = NoUserRow
    /\ \A n \in ModuleServices : cb[n]._state = CLOSED

SpecRows == InitRows /\ [][NextRows]_vars

\* a running gateway with a pool and every service up; a new user or an
\* onboarded user with valid averages, no decision stored yet
InitOverlap ==
    /\ InitNext
    /\ pool
    /\ \A n \in ModuleServices : cb[n]._state = CLOSED
    /\ valid_scores(coalesced(user_state_upsert(userRow)))

SpecOverlap == InitOverlap /\ [][NextOverlap]_vars

\* ------------------------------------------------------------ claims

\* C4 (as claimed): on a breaker that was never reset,
\* consecutive_failures >= failure_threshold implies that the reported
\* state is open.
C4_Original ==
    \A s \in DOMAIN cb :
        (s \notin wasReset /\ cb[s].consecutive_failures >= failure_threshold)
            => state(cb[s], now) = OPEN

\* C4 (amended): on a breaker that was never reset,
\* consecutive_failures >= failure_threshold implies that the reported
\* state is open or half_open, never closed.
C4_Amended ==
    \A s \in DOMAIN cb :
        (s \notin wasReset /\ cb[s].consecutive_failures >= failure_threshold)
            => state(cb[s], now) \in {OPEN, HALF_OPEN}

\* C4 witness: a never-reset breaker at the threshold that a read has
\* moved to half_open.
C4_Witness ==
    \E s \in DOMAIN cb :
        /\ s \notin wasReset
        /\ cb[s].consecutive_failures >= failure_threshold
        /\ cb[s]._state = HALF_OPEN

\* C5: while a breaker is half_open, at most half_open_max_calls wrapped
\* functions admitted by call() are in flight.
C5_Claim ==
    cb[TheBreaker]._state = HALF_OPEN
        => callers[HALF_OPEN] <= half_open_max_calls

\* the last failure_threshold (or more) probes of m failed and
\* recovery_timeout_s has not elapsed since the last failure
Tripped(m) ==
    /\ m \in DOMAIN cb
    /\ svc[m].consecutive_failures >= failure_threshold
    /\ now - cb[m].last_failure_time < recovery_timeout_s

\* C6: after failure_threshold consecutive failed probes of a module's
\* service and until recovery_timeout_s has elapsed since the last
\* failure, the breaker reports open, is_healthy(module) is false and the
\* candidate set of /api/next excludes the module.
C6_Claim ==
    \A m \in ModuleServices :
        Tripped(m) =>
            /\ state(cb[m], now) = OPEN
            /\ ~is_healthy(svc, cb, m, now)
            /\ \A h \in BOOLEAN :
                 m \notin SeqToSet(_get_candidates(h,
                                     service_health_map(svc, cb, now)))
            /\ candFresh => m \notin SeqToSet(lastCandidates)

\* C6 witness: /api/next has just selected its candidates while a module
\* is tripped.
C6_Witness ==
    \E m \in ModuleServices : Tripped(m) /\ candFresh

\* the step records one successful probe of s
ProbeSucceeds(s) ==
    cb'[s].total_successes = cb[s].total_successes + 1

C2_Claim ==
    \A r \in Requests :
        evalReq[r].pc = "done" => evalReq[r].response = "ok"

\* a stored skill value is NULL (read as the default 1.0) or within [0,1]
InUnitRange(x) == x.k = "null" \/ (x.k = "num" /\ 0 <= x.v /\ x.v <= ONE)

\* C3: after any sequence of evaluate calls and aggregations each of the
\* five skill values of user_state lies in [0,1], whatever numbers the LLM
\* returns.
C3_Claim ==
    userRow.exists => \A i \in Fields : InUnitRange(userRow.vals[i])

\* C10: for every user state, memory context and service health map
\* (all services unhealthy included) decide returns a next_module of the
\* registry and candidate_scores sorted by total_score, highest first.
C10_Claim ==
    (decision # NoDecision /\ ~decision.raised) =>
        /\ decision.next_module \in ModuleNames
        /\ \A i, j \in 1..Len(decision.candidate_scores) :
              i < j => decision.candidate_scores[i].total_score
                         >= decision.candidate_scores[j].total_score

\* C10 witness: with a service unhealthy, a decision over several
\* candidates whose ranking differs from the registry order.
C10_Witness ==
    /\ decision # NoDecision
    /\ ~decision.raised
    /\ \E m \in ModuleNames : ~decideIn.health[m]
    /\ Len(decision.candidate_scores) >= 2
    /\ decision.candidate_scores[1].module # "onboarding"
    /\ decision.candidate_scores[1].total_score
         > decision.candidate_scores[2].total_score

\* the module that remediates dimension d
Remediates(m, d) ==
    \E k \in 1..Len(remediation_skills(m)) : remediation_skills(m)[k] = d

\* dimension d alone is below the critical threshold and the others are
\* healthy
OnlyCritical(st, d) ==
    /\ st.scores[d] < critical_threshold
    /\ \A j \in Fields \ {d} : st.scores[j] >= weakness_threshold

\* decide returned the second of the ranking: the diversity filter
\* overrode the first
FilterOverrode ==
    /\ Len(decision.candidate_scores) >= 1
    /\ decision.next_module # decision.candidate_scores[1].module

\* the case of C8: a decision for a user with exactly one critical
\* dimension d whose remediating module is healthy, not overridden
C8_Case(d) ==
    /\ decision # NoDecision
    /\ ~decision.raised
    /\ OnlyCritical(decideIn.st, d)
    /\ \A m \in ModuleNames : Remediates(m, d) => decideIn.health[m]
    /\ ~FilterOverrode

\* C8 (as claimed): with exactly one dimension below the critical
\* threshold, the others healthy, the remediating module healthy and no
\* override by the diversity filter, the decision has depth critical,
\* weakness_trigger that dimension, and a next_module that remediates it.
C8_Original ==
    \A d \in Fields :
        C8_Case(d) =>
            /\ decision.depth = "critical"
            /\ decision.weakness_trigger = d
            /\ Remediates(decision.next_module, d)

\* the modules that remediate d are absent from recent_modules
NotRecent(st, d) ==
    \A m \in ModuleNames :
        Remediates(m, d) =>
            \A i \in 1..Len(st.recent_modules) : st.recent_modules[i] # m

\* C8 (amended): in the case of C8 the decision has depth critical and
\* weakness_trigger the critical dimension; its next_module remediates
\* that dimension provided the remediating module is not among the user's
\* recent_modules.
C8_Amended ==
    \A d \in Fields :
        C8_Case(d) =>
            /\ decision.depth = "critical"
            /\ decision.weakness_trigger = d
            /\ NotRecent(decideIn.st, d) => Remediates(decision.next_module, d)

\* C8 witness: such a decision for a user with a history and memory
\* patterns that favour other modules.
C8_Witness ==
    \E d \in Fields :
        /\ C8_Case(d)
        /\ NotRecent(decideIn.st, d)
        /\ Len(decideIn.st.recent_modules) >= 2
        /\ decideIn.mem.patterns # << >>
        /\ \A n \in 1..Len(decideIn.mem.patterns) :
              d \notin decideIn.mem.patterns[n].mentions
        /\ Remediates(decision.next_module, d)


\* calls i .. i+3 were served one after the other
Window(i) == i >= 1 /\ i + max_consecutive_same_module <= Len(nextCalls)

\* the calls from i to the one after it by max_consecutive_same_module
\* returned the same next_module
SameInARow(i) ==
    \A j \in i..(i + max_consecutive_same_module) :
        nextCalls[j].next_module = nextCalls[i].next_module

\* every call of the window persisted its decision and had at least two
\* candidates
PersistedWithChoice(i) ==
    \A j \in i..(i + max_consecutive_same_module) :
        nextCalls[j].persisted /\ nextCalls[j].candidates >= 2

\* every call of the window got the stored decision history from
\* get_user_state
HistoryRead(i) ==
    \A j \in i..(i + max_consecutive_same_module) : nextCalls[j].history_read

DefaultDecision ==
    decide(DefaultUserState, EmptyMemory, service_health_map(svc, cb, now))

\* C1 as stated: a GET /api/next served without a pool, or while no
\* connection can be acquired, answers project_studio with confidence 0.3
C1_Original ==
    \A i \in 1..Len(nextCalls) :
        nextCalls[i].db \in {"no_pool", "down"} =>
            /\ nextCalls[i].next_module = "project_studio"
            /\ nextCalls[i].confidence = 30

\* C1 amended: without a pool the answer is project_studio with
\* confidence 0.5 and depth normal; while no connection can be acquired
\* the answer is the engine's decision for the default user state (depth
\* onboarding, nothing persisted); project_studio with confidence 0.3 is
\* the answer exactly when the decision pipeline raised
C1_Amended ==
    \A i \in 1..Len(nextCalls) :
        /\ nextCalls[i].db = "no_pool" =>
              /\ nextCalls[i].kind = "no_db"
              /\ nextCalls[i].next_module = "project_studio"
              /\ nextCalls[i].confidence = 50
              /\ nextCalls[i].depth = "normal"
        /\ nextCalls[i].db = "down" =>
              /\ nextCalls[i].kind = "engine"
              /\ nextCalls[i].depth = "onboarding"
              /\ nextCalls[i].next_module = DefaultDecision.next_module
              /\ nextCalls[i].confidence = DefaultDecision.confidence
              /\ nextCalls[i].confidence >= 30
              /\ ~nextCalls[i].persisted
        /\ nextCalls[i].kind = "error" <=>
              (nextCalls[i].confidence = 30 /\ nextCalls[i].db = "up"
                 /\ nextCalls[i].next_module = "project_studio"
                 /\ nextCalls[i].depth = "normal")

\* C1 witness: one call was answered while no connection could be
\* acquired, with the engine's decision, and one by the except branch
C1_Witness ==
    \E i, j \in 1..Len(nextCalls) :
        /\ nextCalls[i].db = "down"
        /\ nextCalls[i].kind = "engine"
        /\ nextCalls[i].confidence # 30
        /\ nextCalls[j].kind = "error"

\* the order of the positions of one evaluate call
CallOrder ==
    { <<"idle", "save_interaction">>, <<"idle", "done">>,
      <<"save_interaction", "score">>, <<"score", "save_scores">>,
      <<"save_scores", "aggregate">>, <<"aggregate", "done">>,
      <<"done", "idle">> }

\* request r takes the step from position a to position b
Moves(r, a, b) == evalReq[r].pc = a /\ evalReq'[r].pc = b

\* C11: a call passes interaction insert, LLM call, scores insert and
\* aggregation in this order; a row enters table interactions only in the
\* first step of a call, table scores only in the step after its LLM call
\* has returned or failed, and user_state changes only in the step after
\* its scores insert has been attempted
C11_Claim ==
    [][ /\ \A r \in Requests :
             evalReq'[r].pc # evalReq[r].pc =>
                 <<evalReq[r].pc, evalReq'[r].pc>> \in CallOrder
        /\ interactions' # interactions =>
             \E r \in Requests : Moves(r, "save_interaction", "score")
        /\ scoresTable' # scoresTable =>
             \E r \in Requests :
                 /\ Moves(r, "save_scores", "aggregate")
                 /\ scoresTable' = Append(scoresTable, evalReq[r].scores)
        /\ userRow' # userRow =>
             \E r \in Requests : Moves(r, "aggregate", "done") ]_vars

\* C11 witness: a call has gone through its four steps
C11_Witness ==
    \E r \in Requests :
        /\ evalReq[r].pc = "done"
        /\ interactions >= 1
        /\ scoresTable # << >>
        /\ userRow.exists
        /\ \E i \in Fields : userRow.vals[i].k = "num"

\* every scores row inserted since the latest successful aggregation
\* holds only nulls
NothingNew ==
    \A n \in (aggregatedRows + 1)..Len(scoresTable) : scoresTable[n] = AllNull

\* C12 as stated: a call whose LLM call failed inserts one scores row of
\* five nulls, and its aggregation leaves the five averages of user_state
\* as they were
C12_Original ==
    [][ \A r \in Requests : evalReq[r].llm_failed =>
          /\ Moves(r, "save_scores", "aggregate") =>
                scoresTable' = Append(scoresTable, AllNull)
          /\ Moves(r, "aggregate", "done") =>
                userRow'.vals = userRow.vals ]_vars

\* C12 amended: a call whose LLM call failed holds five nulls and inserts
\* them as one scores row unless the insert raises; its aggregation
\* leaves the five averages as they were when every scores row inserted
\* since the latest successful aggregation holds only nulls
C12_Amended ==
    [][ \A r \in Requests : evalReq[r].llm_failed =>
          /\ evalReq[r].scores = AllNull
          /\ Moves(r, "save_scores", "aggregate") =>
                scoresTable' \in {scoresTable, Append(scoresTable, AllNull)}
          /\ (Moves(r, "aggregate", "done") /\ NothingNew) =>
                userRow'.vals = userRow.vals ]_vars

\* C12 witness: a call whose LLM call failed has completed after a call
\* with scores, every statement having succeeded
C12_Witness ==
    \E r \in Requests :
        /\ evalReq[r].pc = "done"
        /\ evalReq[r].llm_failed
        /\ ~stmtFailed
        /\ Len(scoresTable) >= 2
        /\ scoresTable[Len(scoresTable)] = AllNull
        /\ aggregatedRows = Len(scoresTable)
        /\ \E i \in Fields : userRow.vals[i].k = "num"

\* C13 as stated: a successful update_user_state that follows a
\* successful one, no scores row inserted in between, leaves the
\* user_state row identical in every column
C13_Original ==
    [][ (aggCalls >= 1 /\ scoresTable' = scoresTable /\ now' = now)
            => userRow' = userRow ]_vars

\* C13 amended: such a call leaves the five averages and next_module as
\* they were and, when the user has a scores row, sets last_update to the
\* time of the call
C13_Amended ==
    [][ (aggCalls >= 1 /\ scoresTable' = scoresTable /\ now' = now) =>
          /\ userRow'.exists
          /\ userRow'.vals = userRow.vals
          /\ userRow'.next_module = userRow.next_module
          /\ (aggCalls' # aggCalls /\ scoresTable # << >>)
                => userRow'.last_update = now
          /\ (aggCalls' = aggCalls \/ scoresTable = << >>)
                => userRow'.last_update = userRow.last_update ]_vars

\* C13 witness: update_user_state has succeeded twice in a row for a user
\* with scores, the second time later than the first
C13_Witness ==
    /\ aggCalls = MaxAggCalls
    /\ scoresTable # << >>
    /\ userRow.last_update = now
    /\ now > 1
    /\ \E i \in Fields : userRow.vals[i].k = "num"

\* every evaluate call received has completed
AllReturned == \A r \in Requests : evalReq[r].pc \in {"idle", "done"}

\* C14: once all of the concurrent evaluate calls have completed, no
\* statement having raised, user_state holds for each dimension the mean
\* of the non-null values of all the user's scores rows, or the value it
\* had before (NULL for a new row) when no row has a value
C14_Claim ==
    (pool /\ evalCalls >= 1 /\ AllReturned /\ ~stmtFailed) =>
        /\ Len(scoresTable) = evalCalls
        /\ userRow.exists
        /\ \A i \in Fields :
              userRow.vals[i] = COALESCE(AVG(scoresTable, i), NullV)

\* C14 witness: two calls were in flight together and have completed, and
\* an average lies between the two values inserted
C14_Witness ==
    /\ pool /\ ~stmtFailed
    /\ \A r \in Requests : evalReq[r].pc = "done"
    /\ Len(scoresTable) >= 2
    /\ \E i \in Fields :
          /\ userRow.vals[i].k = "num"
          /\ scoresTable[1][i].k = "num"
          /\ scoresTable[2][i].k = "num"
          /\ userRow.vals[i].v # scoresTable[1][i].v
          /\ userRow.vals[i].v # scoresTable[2][i].v

\* routes that the specification leaves open
PublicRoutes == {"/health", "/interviews/analyze-frame"}

\* a bearer token that is valid under the primary or the legacy secret
ValidToken(token) ==
    /\ token.present
    /\ ~token.expired
    /\ \/ supabaseSecret /\ token.key = "supabase"
       \/ token.key = "legacy"

\* C15: a request is served only on a public route or with a valid
\* bearer token
C15_Claim ==
    httpReq.status = "served" =>
        (httpReq.route \in PublicRoutes \/ ValidToken(httpReq.token))

\* the probe of s has failed in the round in progress
FailedThisRound(s) ==
    /\ monitor.pc = "probing"
    /\ s \notin monitor.pending
    /\ ~svc[s].is_embedded
    /\ svc[s].status \in {"degraded", "unhealthy"}

\* the step records the result of the probe of t, and of no other service
RecordsProbe(t) ==
    /\ \E o \in ProbeOutcomes :
          /\ svc'[t] = check_service_result(svc[t], o)
          /\ cb'[t] = IF o = "200" THEN record_success(cb[t], now)
                      ELSE record_failure(cb[t], now)
    /\ \A u \in DOMAIN svc \ {t} : svc'[u] = svc[u]
    /\ DOMAIN cb' = DOMAIN cb
    /\ \A u \in DOMAIN cb \ {t} : cb'[u] = cb[u]
    /\ monitor'.pending = monitor.pending \ {t}

\* C16: when the probe of one service fails, every other probe of the
\* round still completes (unless stop_monitoring is called), a probe
\* leaves the round only by recording its own result in its own
\* ServiceHealth and breaker, the round then ends with the monitor asleep
\* for health_check_interval_s, and a monitor whose sleep is over starts
\* the next round; the monitor stops only by stop_monitoring.
C16_Claim ==
    /\ \A t \in ModuleServices :
          (t \in monitor.pending
             /\ \E s \in ModuleServices \ {t} : FailedThisRound(s))
             ~> (monitor.pc = "stopped"
                   \/ (monitor.pc = "probing" /\ t \notin monitor.pending))
    /\ (\E s \in ModuleServices : FailedThisRound(s))
          ~> (monitor.pc \in {"sleeping", "stopped"})
    /\ (monitor.pc = "sleeping" /\ now >= monitor.wakeAt)
          ~> (monitor.pc \in {"probing", "stopped"})
    /\ [][ /\ \A t \in monitor.pending \ monitor'.pending :
                RecordsProbe(t) \/ monitor'.pc = "stopped"
           /\ (monitor.pc = "probing" /\ monitor'.pc = "sleeping")
                => /\ monitor.pending = {}
                   /\ monitor'.wakeAt = now + health_check_interval_s
           /\ (monitor.pc # "stopped" /\ monitor'.pc = "stopped")
                => StopMonitoring ]_vars

\* C16 witness: in a round after the first, the probe of one service has
\* failed again and the probe of another has then recorded its 200.
C16_Witness ==
    \E s \in ModuleServices : \E t \in ModuleServices \ {s} :
        /\ FailedThisRound(s)
        /\ svc[s].consecutive_failures >= 2
        /\ t \notin monitor.pending
        /\ svc[t].status = "healthy"
        /\ cb[t].total_successes >= 2

\* C17: every embedded service is reported healthy by is_healthy, keeps
\* the status "healthy", is in no monitor round and has no circuit
\* breaker, whatever rounds, is_healthy and all_status calls happened.
C17_Claim ==
    \A e \in EmbeddedServices :
        /\ is_healthy(svc, cb, e, now)
        /\ embeddedAnswer # "false"
        /\ svc[e].is_embedded
        /\ svc[e].status = "healthy"
        /\ e \notin monitor.pending
        /\ e \notin DOMAIN cb

\* C17 witness: is_healthy has answered for an embedded service after
\* rounds that opened the breaker of a module that all_status then read.
C17_Witness ==
    /\ embeddedAnswer = "true"
    /\ DOMAIN cb = ModuleServices
    /\ \E s \in ModuleServices :
          /\ cb[s].state_changes >= 2
          /\ cb[s]._state = HALF_OPEN
          /\ monitor.pc = "sleeping"

\* the stored averages, NULL read as 1.0
StoredScores(row) ==
    [i \in Fields |-> IF row.vals[i].k = "null" THEN ONE ELSE row.vals[i].v]

\* the user_state upsert or read failed
ReadFailed == readIn.outcome \in {"acquire_fails", "fetch_fails"}

\* every stored average is NULL or within [0,1]
StoredInRange == \A i \in Fields : InUnitRange(readIn.row.vals[i])

\* C18 (as claimed): get_user_state returns a UserState; after a failed
\* upsert or read it has five scores of 1.0 and empty history; when only
\* the onboarding or a decision-history query fails it has the stored
\* scores and next_module, with no target_role after a failed onboarding
\* query and with recent_modules and module_visit_counts both empty after
\* a failed decision-history query.
C18_Original ==
    readOut.called =>
        /\ ReadFailed =>
              /\ readOut.state.scores = DEFAULT_SCORES
              /\ readOut.state.recent_modules = << >>
              /\ readOut.state.module_visit_counts = NoVisits
        /\ readIn.outcome \in {"onboarding_fails", "history_fails",
                                "counts_fail"} =>
              /\ readOut.state.scores = StoredScores(readIn.row)
              /\ readOut.state.next_module = readIn.row.next_module
              /\ readIn.outcome = "onboarding_fails" =>
                    readOut.state.target_role = NoRole
              /\ readIn.outcome \in {"history_fails", "counts_fail"} =>
                    /\ readOut.state.recent_modules = << >>
                    /\ readOut.state.module_visit_counts = NoVisits

\* C18 (amended): get_user_state returns a UserState; after a failed
\* upsert or read, and when a stored average lies outside [0,1], it is
\* the default one (scores 1.0, no next_module, no target_role, empty
\* history); otherwise it has the stored scores and next_module, no
\* target_role after a failed onboarding query, empty recent_modules and
\* module_visit_counts after a failed recent-decisions query, and the
\* stored recent_modules with empty module_visit_counts after a failed
\* visit-count query.
C18_Amended ==
    readOut.called =>
        IF ReadFailed \/ ~StoredInRange
        THEN readOut.state = DefaultUserState
        ELSE /\ readOut.state.scores = StoredScores(readIn.row)
             /\ readOut.state.next_module = readIn.row.next_module
             /\ readOut.state.target_role =
                   IF readIn.outcome = "onboarding_fails" THEN NoRole
                   ELSE readIn.role
             /\ readOut.state.recent_modules =
                   IF readIn.outcome = "history_fails" THEN << >>
                   ELSE [i \in 1..Len(readIn.table) |->
                            readIn.table[Len(readIn.table) + 1 - i]]
             /\ readOut.state.module_visit_counts =
                   IF readIn.outcome \in {"history_fails", "counts_fail"}
                   THEN NoVisits
                   ELSE CountVisits(readIn.table)

\* C18 witness: the visit-count query failed after the recent-decisions
\* query had returned rows of a user with stored scores.
C18_Witness ==
    /\ readOut.called
    /\ readIn.outcome = "counts_fail"
    /\ readOut.state.recent_modules # << >>
    /\ readOut.state.module_visit_counts = NoVisits
    /\ readOut.state.next_module = "dsa_practice"
    /\ readOut.state.scores # DEFAULT_SCORES

\* get_user_state has been called: /api/next had a state manager
StateQueried == \E n \in 1..Len(nextCalls) : nextCalls[n].db # "no_pool"

\* a get_user_state call has acquired a connection
StateReached == \E n \in 1..Len(nextCalls) : nextCalls[n].db = "up"

\* C19 (as claimed): once get_user_state has been called for the user,
\* a user_state row of the user exists.
C19_Original == StateQueried => userRow.exists

\* C19 (amended): once a get_user_state call for the user has acquired a
\* connection, a user_state row of the user exists; no /api/next or
\* evaluate call removes the row.
C19_Amended ==
    [][ /\ userRow.exists => userRow'.exists
        /\ (\E n \in 1..Len(nextCalls') : nextCalls'[n].db = "up")
             => userRow'.exists ]_vars

\* C19 witness: the row of a user exists after a /api/next call that
\* found the database down, an evaluate call that stored a scores row
\* and a /api/next call that reached the database.
C19_Witness ==
    /\ Len(nextCalls) >= 2
    /\ nextCalls[1].db = "down"
    /\ StateReached
    /\ userRow.exists
    /\ userRow.vals = AllNull
    /\ scoresTable # << >>

\* the last k items of q, in order
LastOf(q, k) == [i \in 1..k |-> q[Len(q) - k + i]]

\* C20: a Histogram never holds more than max_samples samples, an observe
\* on a full Histogram removes the oldest sample and appends the new one,
\* and the samples are the most recent min(n, max_samples) of the n
\* observations, in arrival order.
C20_Claim ==
    [][ /\ Len(hist'.samples) <= hist'.maxlen
        /\ (Len(hist.samples) = hist.maxlen /\ observed' # observed)
             => hist'.samples =
                    Append(Tail(hist.samples), observed'[Len(observed')])
        /\ hist'.samples =
              LastOf(observed', Min(Len(observed'), hist'.maxlen)) ]_vars

\* C20 witness: a Histogram that is full after more observations than it
\* holds.
C20_Witness ==
    /\ hist.maxlen >= 2
    /\ Len(hist.samples) = hist.maxlen
    /\ Len(observed) >= hist.maxlen + 2
    /\ hist.samples[1] # observed[1]

\* C21: whenever no inc call is in progress, the Counter's total and
\* every label's value equal the numbers of inc(label, 1) calls that
\* have returned.
C21_Claim ==
    (\A t \in Threads : incCalls[t].pc = "idle") =>
        /\ counter.value = incReturned.value
        /\ \A l \in Labels : counter.per_label[l] = incReturned.per_label[l]

\* C22: call() on a breaker that is not available admits no call of the
\* wrapped function, adds one to total_rejections and leaves every other
\* field of the breaker as it was; total_rejections grows in no other
\* step.
C22_Claim ==
    [][ /\ (CallStart(TheBreaker) /\ ~is_available(cb[TheBreaker], now))
             => /\ cb'[TheBreaker] = [cb[TheBreaker] EXCEPT
                                         !.total_rejections = @ + 1]
                /\ callers' = callers
        /\ cb'[TheBreaker].total_rejections > cb[TheBreaker].total_rejections
             => /\ ~is_available(cb[TheBreaker], now)
                /\ cb'[TheBreaker].total_calls = cb[TheBreaker].total_calls
                /\ cb'[TheBreaker]._state = cb[TheBreaker]._state ]_vars

\* C22 witness: an open breaker has rejected a call.
C22_Witness ==
    /\ cb[TheBreaker]._state = OPEN
    /\ cb[TheBreaker].total_rejections >= 1
    /\ cb[TheBreaker].total_calls = failure_threshold
    /\ callers[CLOSED] = 0 /\ callers[HALF_OPEN] = 0

\* the step records a success on the breaker
SuccessRecorded ==
    cb'[TheBreaker].total_successes = cb[TheBreaker].total_successes + 1

\* the step takes the stored state from half_open to closed without reset()
ClosesFromHalfOpen ==
    /\ cb[TheBreaker]._state = HALF_OPEN
    /\ cb'[TheBreaker]._state = CLOSED
    /\ ~Reset(TheBreaker)

\* C23 (as claimed): a half_open breaker becomes closed only when
\* half_open_max_calls successes have been recorded while it was
\* half_open, and a success that leaves fewer leaves it half_open.
C23_Original ==
    [][ /\ ClosesFromHalfOpen
             => cb'[TheBreaker]._half_open_calls >= half_open_max_calls
        /\ (/\ cb[TheBreaker]._state = HALF_OPEN
            /\ SuccessRecorded
            /\ cb'[TheBreaker]._half_open_calls < half_open_max_calls)
             => cb'[TheBreaker]._state = HALF_OPEN ]_vars

\* C23 (amended): a half_open breaker becomes closed (reset() apart) only
\* by a recorded success that brings consecutive_successes, counted since
\* the last failure and so including successes recorded while the breaker
\* was open, to half_open_max_calls; a success that leaves
\* consecutive_successes below it leaves the breaker half_open.
C23_Amended ==
    [][ /\ ClosesFromHalfOpen
             => /\ SuccessRecorded
                /\ cb'[TheBreaker].consecutive_successes >= half_open_max_calls
                /\ cb'[TheBreaker]._half_open_calls >= 1
        /\ (/\ cb[TheBreaker]._state = HALF_OPEN
            /\ SuccessRecorded
            /\ cb'[TheBreaker].consecutive_successes < half_open_max_calls)
             => cb'[TheBreaker]._state = HALF_OPEN ]_vars

\* C23 witness: a breaker that closed after a single success recorded
\* while it was half_open.
C23_Witness ==
    /\ cb[TheBreaker]._state = CLOSED
    /\ cb[TheBreaker]._half_open_calls = 1
    /\ cb[TheBreaker].state_changes = 3
    /\ TheBreaker \notin wasReset

\* decide has returned a Decision
Decided == decision # NoDecision /\ ~decision.raised

\* C24: the depth of a Decision is critical if a dimension is below 0.2,
\* otherwise remediation if one is below 0.4, otherwise onboarding if
\* every dimension is at least 0.99 and recent_modules is empty, and
\* otherwise normal.
C24_Claim ==
    Decided =>
        decision.depth =
            IF \E i \in Fields : decideIn.st.scores[i] < 20 * Hundredth
            THEN "critical"
            ELSE IF \E i \in Fields : decideIn.st.scores[i] < 40 * Hundredth
            THEN "remediation"
            ELSE IF /\ \A i \in Fields :
                         decideIn.st.scores[i] >= 99 * Hundredth
                    /\ Len(decideIn.st.recent_modules) = 0
            THEN "onboarding"
            ELSE "normal"

\* C24 witness: a user whose lowest dimension is exactly 0.2 got the depth
\* remediation.
C24_Witness ==
    /\ Decided
    /\ decision.depth = "remediation"
    /\ \E i \in Fields : decideIn.st.scores[i] = 20 * Hundredth
    /\ \A i \in Fields : decideIn.st.scores[i] >= 20 * Hundredth

\* positions of module m in recent_modules of the call, most recent first
RecentPositions(m) ==
    {i \in 1..Len(decideIn.st.recent_modules) :
        decideIn.st.recent_modules[i] = m}

\* the recency signal of m for a module that occurs in recent_modules:
\* min(1, index / length), the index counted from 0
VisitedRecency(m) ==
    LET first == CHOOSE i \in RecentPositions(m) :
                    \A j \in RecentPositions(m) : i <= j
    IN  Min(UNIT, ((first - 1) * UNIT) \div Len(decideIn.st.recent_modules))

\* C25 (as claimed): the recency signal of a candidate is 0.8 when the
\* module does not occur in recent_modules, empty or not, and otherwise
\* min(1, index / length).
C25_Original ==
    Decided =>
        \A n \in 1..Len(decision.candidate_scores) :
            LET c == decision.candidate_scores[n]
            IN  c.recency_score =
                    IF RecentPositions(c.module) = {}
                    THEN (8 * UNIT) \div 10
                    ELSE VisitedRecency(c.module)

\* C25 (amended): the recency signal of a candidate is 0.5 when
\* recent_modules is empty, 0.8 when recent_modules is not empty and the
\* module does not occur in it, and otherwise min(1, index / length).
C25_Amended ==
    Decided =>
        \A n \in 1..Len(decision.candidate_scores) :
            LET c == decision.candidate_scores[n]
            IN  c.recency_score =
                    IF Len(decideIn.st.recent_modules) = 0
                    THEN (5 * UNIT) \div 10
                    ELSE IF RecentPositions(c.module) = {}
                    THEN (8 * UNIT) \div 10
                    ELSE VisitedRecency(c.module)

\* C25 witness: a Decision whose candidates include one that was never
\* visited and one visited twice, the latest visit not the most recent.
C25_Witness ==
    /\ Decided
    /\ \E n \in 1..Len(decision.candidate_scores) :
          RecentPositions(decision.candidate_scores[n].module) = {}
    /\ \E n \in 1..Len(decision.candidate_scores) :
          /\ Cardinality(RecentPositions(
                            decision.candidate_scores[n].module)) = 2
          /\ 1 \notin RecentPositions(decision.candidate_scores[n].module)

\* clamp(0.5 + (top - second) / top, 0.3, 1.0) in percent, for top # 0
ClampedGap(top, second) ==
    IF top > 0
    THEN Min(100, Max(30, 50 + ((top - second) * 100) \div top))
    ELSE Min(100, Max(30, 50 - ((top - second) * 100) \div (0 - top)))

\* the candidate list of the Decision is in descending order of total score
Ranked(cs) ==
    \A n \in 2..Len(cs) : cs[n - 1].total_score >= cs[n].total_score

\* C26 (as claimed): the confidence of a Decision built from two or more
\* scored candidates is clamp(0.5 + (top - second) / top, 0.3, 1.0), top
\* and second being the two highest total scores, and it is 1.0 with a
\* single candidate.
C26_Original ==
    (Decided /\ Len(decision.candidate_scores) >= 1) =>
        LET cs == decision.candidate_scores
        IN  IF Len(cs) = 1 THEN decision.confidence = 100
            ELSE /\ Ranked(cs)
                 /\ cs[1].total_score # 0 =>
                      decision.confidence =
                          ClampedGap(cs[1].total_score, cs[2].total_score)

\* C26 (amended): as claimed when the highest total score is positive;
\* when the highest total score is zero or negative the confidence is 0.5.
C26_Amended ==
    (Decided /\ Len(decision.candidate_scores) >= 1) =>
        LET cs == decision.candidate_scores
        IN  IF Len(cs) = 1 THEN decision.confidence = 100
            ELSE /\ Ranked(cs)
                 /\ decision.confidence =
                      IF cs[1].total_score > 0
                      THEN ClampedGap(cs[1].total_score, cs[2].total_score)
                      ELSE 50

\* C26 witness: a Decision from two candidates that both score below
\* zero, the second below the first.
C26_Witness ==
    /\ Decided
    /\ Len(decision.candidate_scores) = 2
    /\ decision.candidate_scores[1].total_score < 0
    /\ decision.candidate_scores[2].total_score
         < decision.candidate_scores[1].total_score
    /\ decision.confidence = 50

\* neither strategy of _parse_scores completes on the content: no JSON
\* at all, or a JSON object with a dimension that float() rejects with
\* ValueError
ParseFailed ==
    \/ parseIn.kind = NotJson
    \/ /\ parseIn.kind = "json"
       /\ parse_fields(parseIn.data, AllNull, 1).end = "ValueError"

\* C27: when neither the direct parse nor the parse of the extracted
\* block completes, a cast failure included, the scores that
\* _parse_scores returns have all five dimensions null.
C27_Claim ==
    (parseOut.called /\ parseOut.end = "return" /\ ParseFailed)
        => parseOut.scores = AllNull

\* C28: the legacy decide returns project_studio only when all five
\* scores are >= 0.4, and for a state with a score in [0, 0.4), 0.0
\* included, the remediation module of the first such dimension in the
\* order clarity, tradeoffs, adaptability, failure awareness, DSA.
C28_Claim ==
    ruleOut.called =>
        LET weak == {i \in Fields :
                        /\ ruleIn[i].k = "num"
                        /\ ruleIn[i].v >= 0
                        /\ ruleIn[i].v < 40 * Hundredth}
        IN  /\ ruleOut.next_module = "project_studio" =>
                  \A i \in Fields :
                      ruleIn[i].k = "num" => ruleIn[i].v >= 40 * Hundredth
            /\ weak # {} =>
                  ruleOut.next_module =
                      RuleModule[CHOOSE i \in weak : \A j \in weak : i <= j]

\* C29: with overlapping /api/next requests whose reads and inserts all
\* succeed and that have two candidates or more, the audit history never
\* holds more than max_consecutive_same_module consecutive entries with
\* the same next_module.
C29_Claim ==
    \A i \in 1..Len(decisionsTable) :
        i + max_consecutive_same_module <= Len(decisionsTable) =>
            \E k \in 1..max_consecutive_same_module :
                decisionsTable[i + k] # decisionsTable[i]

\* C30: with overlapping /api/next requests whose writes all succeed,
\* whenever no request is in flight user_state.next_module is the
\* next_module of the entry of orchestrator_decisions inserted last.
C30_Claim ==
    (Overlapping = {} /\ decisionsTable # << >>) =>
        userRow.next_module = decisionsTable[Len(decisionsTable)]
====
